---- MODULE Spec2Model ----
(***************************************************************************)
(* Member synchronisation of the DoorFlow sample application.              *)
(*                                                                         *)
(* The model follows POST /api/members/sync (src/app/api/members/sync/     *)
(* route.ts), the JSON-file member and team stores it reads and writes,    *)
(* and the remote people directory it talks to through the SDK.            *)
(*                                                                         *)
(* Conventions                                                             *)
(*  - JavaScript null / undefined of a numeric field is NULL (0); the      *)
(*    remote directory only hands out positive ids.                        *)
(*  - A string is a sequence of one-letter strings, so that toLowerCase    *)
(*    is computed letter by letter; the null string is NullStr.            *)
(*  - A rejected fs.writeFile makes updateMember throw; a remote call      *)
(*    that fails throws and leaves the remote directory untouched.         *)
(***************************************************************************)
EXTENDS Integers, Sequences, FiniteSets, TLC

(* ----------------------------- bounds ---------------------------------- *)
\* number of members in the store file
MaxMembers == 2
\* number of sync requests served one after the other
MaxRuns == 2
\* number of failing calls (remote or local) in one behaviour
MaxFaults == 1
\* length of a teamIds list handed to the group resolution
MaxTeamIds == 3
\* number of member, team and reset requests in one behaviour
MaxRequests == 2

(* ------------------------- values and helpers -------------------------- *)
NULL == 0

NullStr == <<"null">>

\* JavaScript null in the place of a list of team ids
NullList == <<"null">>

\* `list || []` and `list ?? []`
OrEmpty(list) == IF list = NullList THEN << >> ELSE list

\* a person id that was handed out once and no longer exists remotely
StaleId == 9

\* first id the remote directory hands out to a person created in the model
FirstNewId == 10

MemberIds == <<"m1", "m2", "m3", "m4">>

\* firstName_lastName of the member at each store position
MemberNames == <<"alice_smith", "bob_johnson", "carol_williams", "eva_martinez">>

\* public/photos/{firstname}_{lastname}.png files that exist
PhotoFiles == {"alice_smith"}

\* teamIds of the member at each store position; "t3" is no stored team
MemberTeamIds == << <<"t1", "t2", "t3">>, <<"t2", "t2">>, << >>, <<"t1">> >>

\* email and link of a member: unlinked without an email, unlinked or stale
\* with an email some person has in another letter case, stale with an email
\* nobody has, linked to person 1
MemberProfiles ==
    { << << >>, NULL >>, << <<"A", "l">>, NULL >>, << <<"A", "l">>, StaleId >>,
      << <<"b", "o">>, StaleId >>, << <<"A", "l">>, 1 >> }

Range(s) == {s[i] : i \in DOMAIN s}

MaxOf(S) == CHOOSE x \in S : \A y \in S : y <= x

\* String.prototype.toLowerCase on the letters the model uses
LowerChar(c) ==
    CASE c = "A" -> "a"
      [] c = "B" -> "b"
      [] c = "L" -> "l"
      [] OTHER -> c

\* mutant: the email is compared as written
ToLowerCase_Identity(s) == s

ToLowerCase(s) == [i \in 1..Len(s) |-> LowerChar(s[i])]

\* JavaScript truthiness of a string-or-null value
TruthyStr(s) == s # NullStr /\ s # << >>

\* `x || null` on a string
OrNullStr(s) == IF TruthyStr(s) THEN s ELSE NullStr

\* { ...a, ...b }
Spread(a, b) ==
    [f \in (DOMAIN a) \cup (DOMAIN b) |-> IF f \in DOMAIN b THEN b[f] ELSE a[f]]

(* ------------------------------ state ---------------------------------- *)
VARIABLES
    members,        \* data/members.json : sequence of CrmMember
    teams,          \* data/teams.json   : sequence of CrmTeam
    people,         \* remote directory  : sequence of person records
    nextPersonId,   \* next id the remote directory hands out
    now,            \* clock behind new Date()
    pc,             \* position of the sync request: idle, loop, done, fatal
    createMissing,  \* flags in the body of the sync request; the caller
    dryRun,         \* sends the same body each time it asks for a sync
    snapMembers,    \* `members` local of POST (loaded once)
    teamToGroupMap, \* `teamToGroupMap` local of POST
    doorflowPeople, \* `doorflowPeople` local of POST (listed once)
    idx,            \* position of the for loop in snapMembers
    results,        \* `results` local of POST
    response,       \* response of the last finished sync request
    calls,          \* remote calls and store writes issued by the current run
    outcome,        \* per processed member: which calls were made and how they ended
    faults,         \* failing calls so far
    runs,           \* sync requests started so far
    before,         \* stores and directory when the current run started
    prev,           \* what the previous run returned
    resolve,        \* a group resolution: the team ids asked for, the answers
    connected,      \* doorflow.isAuthenticated()
    uuids,          \* number of ids drawn from uuidv4()
    api,            \* the last member, team or reset request and its response
    loaded,         \* `members` local of an updateMember whose save is pending
    rival           \* a second sync request served while the first one runs

vars == <<members, teams, people, nextPersonId, now, pc, createMissing, dryRun,
          snapMembers, teamToGroupMap, doorflowPeople, idx, results, response,
          calls, outcome, faults, runs, before, prev, resolve, connected, uuids,
          api, loaded, rival>>

\* the variables of a sync request, and those of the other requests
syncVars == <<pc, createMissing, dryRun, snapMembers, teamToGroupMap,
              doorflowPeople, idx, results, response, calls, outcome, runs,
              before, prev, resolve>>

apiVars == <<connected, uuids, api>>

raceVars == <<rival>>

(* ------------------------- stores: members ----------------------------- *)
\* loadAllMembers
LoadAllMembers == members

FindIndex(ms, id) ==
    LET hits == {i \in DOMAIN ms : ms[i].id = id}
    IN  IF hits = {} THEN 0 ELSE CHOOSE i \in hits : \A j \in hits : i <= j

\* updateMember: the store after the call (unchanged when the id is unknown)
UpdateMember(ms, id, updates, time) ==
    LET index == FindIndex(ms, id)
    IN  IF index = 0
        THEN ms
        ELSE [ms EXCEPT ![index] =
                Spread(Spread(ms[index], updates), [updatedAt |-> time])]

(* -------------------------- stores: teams ------------------------------ *)
\* loadAllTeams
LoadAllTeams == teams

\* getTeamsByIds
GetTeamsByIds(ts, ids) == SelectSeq(ts, LAMBDA t : t.id \in Range(ids))

\* mutant: the unmapped teams are not filtered out
GetDoorflowGroupIdsForTeams_NoFilter(ts, teamIds) ==
    LET found == GetTeamsByIds(ts, teamIds)
    IN  [i \in 1..Len(found) |-> found[i].doorflowGroupId]

\* getDoorflowGroupIdsForTeams
GetDoorflowGroupIdsForTeams(ts, teamIds) ==
    LET mapped == SelectSeq(GetTeamsByIds(ts, teamIds),
                            LAMBDA t : t.doorflowGroupId # NULL)
    IN  [i \in 1..Len(mapped) |-> mapped[i].doorflowGroupId]

\* updateTeam: the store after the call (unchanged when the id is unknown)
UpdateTeam(ts, id, updates, time) ==
    LET index == FindIndex(ts, id)
    IN  IF index = 0
        THEN ts
        ELSE [ts EXCEPT ![index] =
                Spread(Spread(ts[index], updates), [updatedAt |-> time])]

(* ---------------------- sync engine: pure parts ------------------------ *)
\* teamToGroupMap of POST: a Map, so a later team with the same id overwrites
TeamToGroupMap(ts) ==
    LET at(id) == {i \in DOMAIN ts : ts[i].id = id /\ ts[i].doorflowGroupId # NULL}
    IN  [id \in {ts[i].id : i \in {j \in DOMAIN ts : ts[j].doorflowGroupId # NULL}}
            |-> ts[MaxOf(at(id))].doorflowGroupId]

\* getGroupIdsForMember
GetGroupIdsForMember(member, map) ==
    LET mapped == SelectSeq(OrEmpty(member.teamIds),
                            LAMBDA teamId : teamId \in DOMAIN map)
    IN  [i \in 1..Len(mapped) |-> map[mapped[i]]]

\* getMemberPhotoBase64: TRUE when the photo file exists
GetMemberPhotoBase64(member) == member.name \in PhotoFiles

NoPerson == [id |-> NULL, email |-> NullStr, groupIds |-> << >>,
             image |-> FALSE, systemId |-> ""]

\* mutant: the first entry of a key is kept
PeopleByEmail_FirstWins(list) ==
    LET withEmail == {i \in DOMAIN list : TruthyStr(list[i].email)}
        at(k) == {i \in withEmail : ToLowerCase(list[i].email) = k}
    IN  [k \in {ToLowerCase(list[i].email) : i \in withEmail} |->
            list[CHOOSE i \in at(k) : \A h \in at(k) : i <= h]]

\* peopleByEmail of POST: people with a truthy email, keyed by the lower-cased
\* email; new Map(entries) keeps the last entry of a key
PeopleByEmail(list) ==
    LET withEmail == {i \in DOMAIN list : TruthyStr(list[i].email)}
        at(k) == {i \in withEmail : ToLowerCase(list[i].email) = k}
    IN  [k \in {ToLowerCase(list[i].email) : i \in withEmail} |-> list[MaxOf(at(k))]]

\* Map.prototype.get, undefined being NoPerson
MapGet(map, k) == IF k \in DOMAIN map THEN map[k] ELSE NoPerson

\* mutant: the link of a member is never found in the listing
FindPerson_Never(list, id) == FALSE

\* doorflowPeople.find((p) => p.id === id) is defined
FindPerson(list, id) == \E i \in DOMAIN list : list[i].id = id

(* ------------------------- remote directory ---------------------------- *)
\* mutant: the directory keeps one person per systemId
CreatePerson_OnePerSystemId(ps, id, input) ==
    IF input.systemId # "" /\ \E i \in DOMAIN ps : ps[i].systemId = input.systemId
    THEN ps
    ELSE Append(ps, [id |-> id, email |-> input.email, groupIds |-> input.groupIds,
                     image |-> input.image, systemId |-> input.systemId])

\* peopleApi.createPerson, when it succeeds
CreatePerson(ps, id, input) ==
    Append(ps, [id |-> id, email |-> input.email, groupIds |-> input.groupIds,
                image |-> input.image, systemId |-> input.systemId])

\* mutant: an update leaves the group assignments of the person as they are
UpdatePerson_KeepGroups(ps, id, input) ==
    [i \in DOMAIN ps |->
        IF ps[i].id = id
        THEN [ps[i] EXCEPT !.image = IF input.image THEN TRUE ELSE @]
        ELSE ps[i]]

\* peopleApi.updatePerson, when it succeeds: groupIds replaces the groups
UpdatePerson(ps, id, input) ==
    [i \in DOMAIN ps |->
        IF ps[i].id = id
        THEN [ps[i] EXCEPT
                !.groupIds = IF input.hasGroupIds THEN input.groupIds ELSE @,
                !.image = IF input.image THEN TRUE ELSE @]
        ELSE ps[i]]

(* ------------------- sync engine: one loop iteration ------------------- *)
\* A working record `s` carries the stores, the directory, the results and
\* the log through the calls of one iteration.

EmptyResults == [matched |-> << >>, created |-> << >>, unmatched |-> << >>,
                 errors |-> << >>]

NoOutcome(id) == [id |-> id, unlink |-> "none", link |-> "none",
                  create |-> "none", update |-> "none", bucket |-> "none",
                  personId |-> NULL]

Call(op, target, personId, hasGroupIds, groupIds, image, ok) ==
    [op |-> op, target |-> target, personId |-> personId,
     hasGroupIds |-> hasGroupIds, groupIds |-> groupIds, image |-> image,
     ok |-> ok]

\* mutant: the write reports success without saving the link
StoreWrite_NotSaved(s, id, link, w, which) ==
    IF FindIndex(s.members, id) = 0
    THEN [s EXCEPT !.out = [@ EXCEPT ![which] = "missing"]]
    ELSE IF w = "ok"
    THEN [s EXCEPT
            !.now = s.now + 1,
            !.calls = Append(@, Call("updateMember", id, link, FALSE, << >>, FALSE, TRUE)),
            !.out = [@ EXCEPT ![which] = "ok"]]
    ELSE [s EXCEPT
            !.now = s.now + 1,
            !.calls = Append(@, Call("updateMember", id, link, FALSE, << >>, FALSE, FALSE)),
            !.out = [@ EXCEPT ![which] = "throw"],
            !.thrown = TRUE]

\* await MemberStorage.update(id, { doorflowPersonId: link }); w is what
\* fs.writeFile does: "ok" or "throw"
StoreWrite(s, id, link, w, which) ==
    IF FindIndex(s.members, id) = 0
    THEN [s EXCEPT !.out = [@ EXCEPT ![which] = "missing"]]
    ELSE IF w = "ok"
    THEN [s EXCEPT
            !.members = UpdateMember(s.members, id, [doorflowPersonId |-> link], s.now + 1),
            !.now = s.now + 1,
            !.calls = Append(@, Call("updateMember", id, link, FALSE, << >>, FALSE, TRUE)),
            !.out = [@ EXCEPT ![which] = "ok"]]
    ELSE [s EXCEPT
            !.now = s.now + 1,
            !.calls = Append(@, Call("updateMember", id, link, FALSE, << >>, FALSE, FALSE)),
            !.out = [@ EXCEPT ![which] = "throw"],
            !.thrown = TRUE]

\* mutant: a failed update is recorded as a sync error
RemoteUpdate_FailToErrors(s, id, input, r) ==
    IF r = "ok" /\ \E i \in DOMAIN s.people : s.people[i].id = id
    THEN [s EXCEPT
            !.people = UpdatePerson(s.people, id, input),
            !.calls = Append(@, Call("updatePerson", "", id, input.hasGroupIds,
                                     input.groupIds, input.image, TRUE)),
            !.out = [@ EXCEPT !.update = "ok"]]
    ELSE [s EXCEPT
            !.calls = Append(@, Call("updatePerson", "", id, input.hasGroupIds,
                                     input.groupIds, input.image, FALSE)),
            !.results = [@ EXCEPT !.errors =
                            Append(@, [member |-> [id |-> s.out.id],
                                       error |-> "Response returned an error code"])],
            !.out = [@ EXCEPT !.update = "fail"]]

\* await peopleApi.updatePerson({ id, personInput }); r is "ok" or "fail"
RemoteUpdate(s, id, input, r) ==
    IF r = "ok" /\ \E i \in DOMAIN s.people : s.people[i].id = id
    THEN [s EXCEPT
            !.people = UpdatePerson(s.people, id, input),
            !.calls = Append(@, Call("updatePerson", "", id, input.hasGroupIds,
                                     input.groupIds, input.image, TRUE)),
            !.out = [@ EXCEPT !.update = "ok"]]
    ELSE [s EXCEPT
            !.calls = Append(@, Call("updatePerson", "", id, input.hasGroupIds,
                                     input.groupIds, input.image, FALSE)),
            !.out = [@ EXCEPT !.update = "fail"]]

\* await peopleApi.createPerson({ personInput }); r is "ok" or "fail"
RemoteCreate(s, input, r) ==
    IF r = "ok"
    THEN [s EXCEPT
            !.people = CreatePerson(s.people, s.nextPersonId, input),
            !.nextPersonId = s.nextPersonId + 1,
            !.newId = s.nextPersonId,
            !.calls = Append(@, Call("createPerson", input.systemId, s.nextPersonId,
                                     input.groupIds # << >>, input.groupIds,
                                     input.image, TRUE)),
            !.out = [@ EXCEPT !.create = "ok"]]
    ELSE [s EXCEPT
            !.calls = Append(@, Call("createPerson", input.systemId, NULL,
                                     input.groupIds # << >>, input.groupIds,
                                     input.image, FALSE)),
            !.out = [@ EXCEPT !.create = "fail"],
            !.thrown = TRUE]

PushMatched(s, member, personId) ==
    [s EXCEPT
        !.results = [@ EXCEPT !.matched =
                        Append(@, [member |-> member, personId |-> personId])],
        !.out = [@ EXCEPT !.bucket = "matched", !.personId = personId]]

PushCreated(s, member, personId) ==
    [s EXCEPT
        !.results = [@ EXCEPT !.created =
                        Append(@, [member |-> member, personId |-> personId])],
        !.out = [@ EXCEPT !.bucket = "created", !.personId = personId]]

PushUnmatched(s, member) ==
    [s EXCEPT
        !.results = [@ EXCEPT !.unmatched = Append(@, member)],
        !.out = [@ EXCEPT !.bucket = "unmatched"]]

\* an exception that leaves the loop for the catch of POST
Escape(s) == [s EXCEPT !.fatal = TRUE, !.out = [@ EXCEPT !.bucket = "fatal"]]

\* mutant: the error is swallowed without being recorded
PushError_Dropped(s, member, message) ==
    [s EXCEPT !.thrown = FALSE, !.out = [@ EXCEPT !.bucket = "errors"]]

\* mutant: the creation branch has no catch
PushError_Rethrow(s, member, message) == Escape(s)

\* the catch of the creation branch: record the error, carry on
PushError(s, member, message) ==
    [s EXCEPT
        !.results = [@ EXCEPT !.errors =
                        Append(@, [member |-> member, error |-> message])],
        !.thrown = FALSE,
        !.out = [@ EXCEPT !.bucket = "errors"]]

\* mutant: the update of the matched person is always issued, with groupIds
TryMatchMember_AlwaysUpdate(s, member, byEmail, cm, dr, map, photoBase64, lw, cr, up) ==
    LET existingPerson ==
            IF TruthyStr(member.email)
            THEN MapGet(byEmail, ToLowerCase(member.email))
            ELSE NoPerson
        groupIds == GetGroupIdsForMember(member, map)
    IN  IF existingPerson.id # NULL
        THEN IF dr
             THEN PushMatched(s, Spread(member, [doorflowPersonId |-> existingPerson.id]),
                              existingPerson.id)
             ELSE LET s1 == StoreWrite(s, member.id, existingPerson.id, lw, "link")
                      s2 == RemoteUpdate(s1, existingPerson.id,
                                    [hasGroupIds |-> TRUE,
                                     groupIds |-> groupIds,
                                     image |-> photoBase64], up)
                  IN  IF s1.thrown
                      THEN Escape(s1)
                      ELSE PushMatched(s2, Spread(member, [doorflowPersonId |-> existingPerson.id]),
                                       existingPerson.id)
        ELSE IF cm
        THEN IF dr
             THEN PushCreated(s, member, 0)
             ELSE LET s1 == RemoteCreate(s,
                                [email |-> OrNullStr(member.email),
                                 systemId |-> member.id,
                                 groupIds |-> groupIds,
                                 image |-> photoBase64], cr)
                      s2 == StoreWrite(s1, member.id, s1.newId, lw, "link")
                  IN  IF s1.thrown
                      THEN PushError(s1, member, "Response returned an error code")
                      ELSE IF s2.thrown
                      THEN PushError(s2, member, "ENOSPC: no space left on device, write")
                      ELSE PushCreated(s2, Spread(member, [doorflowPersonId |-> s1.newId]),
                                       s1.newId)
        ELSE PushUnmatched(s, member)

\* tryMatchMember
TryMatchMember(s, member, byEmail, cm, dr, map, photoBase64, lw, cr, up) ==
    LET existingPerson ==
            IF TruthyStr(member.email)
            THEN MapGet(byEmail, ToLowerCase(member.email))
            ELSE NoPerson
        groupIds == GetGroupIdsForMember(member, map)
    IN  IF existingPerson.id # NULL
        THEN IF dr
             THEN PushMatched(s, Spread(member, [doorflowPersonId |-> existingPerson.id]),
                              existingPerson.id)
             ELSE LET s1 == StoreWrite(s, member.id, existingPerson.id, lw, "link")
                      s2 == IF Len(groupIds) > 0 \/ photoBase64
                            THEN RemoteUpdate(s1, existingPerson.id,
                                    [hasGroupIds |-> Len(groupIds) > 0,
                                     groupIds |-> groupIds,
                                     image |-> photoBase64], up)
                            ELSE s1
                  IN  IF s1.thrown
                      THEN Escape(s1)
                      ELSE PushMatched(s2, Spread(member, [doorflowPersonId |-> existingPerson.id]),
                                       existingPerson.id)
        ELSE IF cm
        THEN IF dr
             THEN PushCreated(s, member, 0)
             ELSE LET s1 == RemoteCreate(s,
                                [email |-> OrNullStr(member.email),
                                 systemId |-> member.id,
                                 groupIds |-> groupIds,
                                 image |-> photoBase64], cr)
                      s2 == StoreWrite(s1, member.id, s1.newId, lw, "link")
                  IN  IF s1.thrown
                      THEN PushError(s1, member, "Response returned an error code")
                      ELSE IF s2.thrown
                      THEN PushError(s2, member, "ENOSPC: no space left on device, write")
                      ELSE PushCreated(s2, Spread(member, [doorflowPersonId |-> s1.newId]),
                                       s1.newId)
        ELSE PushUnmatched(s, member)

\* mutant: the stale link is cleared in a dry run too
ProcessMember_UnlinkInDryRun(s, member, list, cm, dr, map, uw, lw, cr, up) ==
    IF member.doorflowPersonId # NULL
    THEN IF FindPerson(list, member.doorflowPersonId)
         THEN PushMatched(s, member, member.doorflowPersonId)
         ELSE LET s1 == StoreWrite(s, member.id, NULL, uw, "unlink")
              IN  IF s1.thrown
                  THEN Escape(s1)
                  ELSE TryMatchMember(s1, member, PeopleByEmail(list), cm, dr, map,
                                      GetMemberPhotoBase64(member), lw, cr, up)
    ELSE TryMatchMember(s, member, PeopleByEmail(list), cm, dr, map,
                        GetMemberPhotoBase64(member), lw, cr, up)

\* mutant: a link that is not in the listing is left in the store
ProcessMember_KeepStaleLink(s, member, list, cm, dr, map, uw, lw, cr, up) ==
    IF member.doorflowPersonId # NULL /\ FindPerson(list, member.doorflowPersonId)
    THEN PushMatched(s, member, member.doorflowPersonId)
    ELSE TryMatchMember(s, member, PeopleByEmail(list), cm, dr, map,
                        GetMemberPhotoBase64(member), lw, cr, up)

\* mutant: the link of a member found in the listing is written again
ProcessMember_RelinkFound(s, member, list, cm, dr, map, uw, lw, cr, up) ==
    IF member.doorflowPersonId # NULL
    THEN IF FindPerson(list, member.doorflowPersonId)
         THEN PushMatched(StoreWrite(s, member.id, member.doorflowPersonId, "ok", "link"),
                          member, member.doorflowPersonId)
         ELSE LET s1 == IF ~dr THEN StoreWrite(s, member.id, NULL, uw, "unlink") ELSE s
              IN  IF s1.thrown
                  THEN Escape(s1)
                  ELSE TryMatchMember(s1, member, PeopleByEmail(list), cm, dr, map,
                                      GetMemberPhotoBase64(member), lw, cr, up)
    ELSE TryMatchMember(s, member, PeopleByEmail(list), cm, dr, map,
                        GetMemberPhotoBase64(member), lw, cr, up)

\* body of `for (const member of members)` in POST
ProcessMember(s, member, list, cm, dr, map, uw, lw, cr, up) ==
    IF member.doorflowPersonId # NULL
    THEN IF FindPerson(list, member.doorflowPersonId)
         THEN PushMatched(s, member, member.doorflowPersonId)
         ELSE LET s1 == IF ~dr THEN StoreWrite(s, member.id, NULL, uw, "unlink") ELSE s
              IN  IF s1.thrown
                  THEN Escape(s1)
                  ELSE TryMatchMember(s1, member, PeopleByEmail(list), cm, dr, map,
                                      GetMemberPhotoBase64(member), lw, cr, up)
    ELSE TryMatchMember(s, member, PeopleByEmail(list), cm, dr, map,
                        GetMemberPhotoBase64(member), lw, cr, up)

\* POST with dryRun = true over a snapshot, a listing and a team map: the
\* SyncResult it returns
DryRunOf(snapshot, list, cm, map) ==
    LET RECURSIVE go(_, _)
        go(s, k) ==
            IF k > Len(snapshot) THEN s.results
            ELSE go(ProcessMember([s EXCEPT !.out = NoOutcome(snapshot[k].id)],
                                  snapshot[k], list, cm, TRUE, map,
                                  "ok", "ok", "ok", "ok"), k + 1)
    IN  go([members |-> snapshot, people |-> list, nextPersonId |-> NULL,
            now |-> 0, results |-> EmptyResults, calls |-> << >>,
            out |-> NoOutcome(""), thrown |-> FALSE, fatal |-> FALSE,
            newId |-> NULL], 1)

(* ------------------------- initial states ------------------------------ *)
Member(i, email, link) ==
    [id |-> MemberIds[i], name |-> MemberNames[i], email |-> email,
     teamIds |-> MemberTeamIds[i], doorflowPersonId |-> link, updatedAt |-> 0]

Team(id, groupId) == [id |-> id, doorflowGroupId |-> groupId, updatedAt |-> 0]

Person(id, email, groupIds) ==
    [id |-> id, email |-> email, groupIds |-> groupIds, image |-> FALSE,
     systemId |-> ""]

\* member stores of 1..MaxMembers members
MemberStores ==
    UNION {
      {[i \in 1..n |-> Member(i, f[i][1], f[i][2])] : f \in [1..n -> MemberProfiles]}
      : n \in 1..MaxMembers }

\* The team store and the remote directory a behaviour starts from.
\*  - teams mapped to two groups, to none, or both to the same group;
\*  - person 1 has an email that differs from a member's only in letter case,
\*    person 2 has a null email and person 3 an empty one; or persons 1 and 2
\*    share an email up to letter case.
Worlds ==
    { [teams |-> <<Team("t1", 5), Team("t2", 6)>>,
       people |-> <<Person(1, <<"a", "l">>, <<7>>), Person(2, NullStr, << >>),
                    Person(3, << >>, << >>)>>],
      [teams |-> <<Team("t1", NULL), Team("t2", NULL)>>,
       people |-> <<Person(1, <<"a", "l">>, <<7>>), Person(2, NullStr, << >>),
                    Person(3, << >>, << >>)>>],
      [teams |-> <<Team("t1", 5), Team("t2", 5)>>,
       people |-> <<Person(1, <<"a", "L">>, << >>), Person(2, <<"a", "l">>, <<7>>)>>] }

\* `remoteStatus` is the status of the ResponseError the catch of POST got,
\* 0 when it got none
NoResponse == [status |-> 0, error |-> "", cause |-> "none", remoteStatus |-> 0,
               hasResult |-> FALSE, result |-> EmptyResults]

NoPrev == [valid |-> FALSE, createMissing |-> FALSE, dryRun |-> FALSE,
           matched |-> {}, nextPersonId |-> NULL, linked |-> {}]

NoResolve == [teamIds |-> << >>, answered |-> FALSE, sync |-> << >>,
              storage |-> << >>]

\* a request body: `has` is the set of fields the JSON object carries
Body(has, id, name, email, teamIds, link) ==
    [has |-> has, id |-> id, name |-> name, email |-> email,
     teamIds |-> teamIds, doorflowPersonId |-> link]

NoBody == Body({}, "", "", << >>, << >>, NULL)

\* no request yet; `seq` counts the requests, `members`, `teams` and `people`
\* are the stores and the directory when the request arrived
NoApi == [seq |-> 0, op |-> "none", id |-> "", body |-> NoBody, status |-> 0,
          calls |-> << >>, members |-> << >>, teams |-> << >>, people |-> << >>]

NoLoaded == [open |-> FALSE, members |-> << >>]

\* the locals of a second POST /api/members/sync that has not arrived
NoRival == [pc |-> "idle", snapMembers |-> << >>, teamToGroupMap |-> << >>,
            doorflowPeople |-> << >>, idx |-> 0, results |-> EmptyResults,
            calls |-> << >>, outcome |-> << >>]

Init ==
    /\ members \in MemberStores
    /\ \E w \in Worlds : teams = w.teams /\ people = w.people
    /\ resolve = NoResolve
    /\ nextPersonId = FirstNewId
    /\ now = 0
    /\ pc = "idle"
    /\ createMissing \in BOOLEAN
    /\ dryRun \in BOOLEAN
    /\ snapMembers = << >>
    /\ teamToGroupMap = << >>
    /\ doorflowPeople = << >>
    /\ idx = 0
    /\ results = EmptyResults
    /\ response = NoResponse
    /\ calls = << >>
    /\ outcome = << >>
    /\ faults = 0
    /\ runs = 0
    /\ before = [members |-> members, teams |-> teams, people |-> people,
                 nextPersonId |-> nextPersonId]
    /\ prev = NoPrev
    /\ connected = TRUE
    /\ uuids = 0
    /\ api = NoApi
    /\ loaded = NoLoaded
    /\ rival = NoRival

(* ------------------------------ actions -------------------------------- *)
\* mutant: the catch answers with the (empty) results
ErrorResponse_WithResult(isResponseError, status, cause) ==
    [status |-> 200, error |-> "", cause |-> cause,
     remoteStatus |-> IF isResponseError THEN status ELSE 0, hasResult |-> TRUE,
     result |-> EmptyResults]

\* mutant: every exception is answered with 500
ErrorResponse_AlwaysServerError(isResponseError, status, cause) ==
    [status |-> 500, error |-> "Sync failed", cause |-> cause,
     remoteStatus |-> IF isResponseError THEN status ELSE 0, hasResult |-> FALSE,
     result |-> EmptyResults]

\* the catch of POST: the response for an exception
ErrorResponse(isResponseError, status, cause) ==
    IF isResponseError
    THEN IF status = 401
         THEN [status |-> 401,
               error |-> "Not authenticated. Please connect to DoorFlow first.",
               cause |-> cause, remoteStatus |-> status, hasResult |-> FALSE,
               result |-> EmptyResults]
         ELSE [status |-> status, error |-> "DoorFlow API error",
               cause |-> cause, remoteStatus |-> status, hasResult |-> FALSE,
               result |-> EmptyResults]
    ELSE [status |-> 500, error |-> "Sync failed", cause |-> cause,
          remoteStatus |-> 0, hasResult |-> FALSE, result |-> EmptyResults]

MatchedPairs(r) == {<<e.member.id, e.personId>> : e \in Range(r.matched)}

Linked(ms) == {ms[i].id : i \in {j \in DOMAIN ms : ms[j].doorflowPersonId # NULL}}

\* what the listing call of a run does
ListingOutcomes == {"ok", "401", "404", "503", "network"}

\* POST up to the loop: parse the body, load members and teams, list people
SyncBegin ==
    \E body \in {"ok", "bad"}, listing \in ListingOutcomes :
        /\ pc \in {"idle", "done", "fatal"}
        /\ runs < MaxRuns
        /\ listing # "ok" => faults < MaxFaults
        /\ body = "bad" => listing = "ok"
        /\ runs' = runs + 1
        /\ faults' = IF body = "ok" /\ listing # "ok" THEN faults + 1 ELSE faults
        /\ prev' = IF pc = "done"
                   THEN [valid |-> TRUE, createMissing |-> createMissing,
                         dryRun |-> dryRun, matched |-> MatchedPairs(results),
                         nextPersonId |-> before.nextPersonId,
                         linked |-> Linked(members)]
                   ELSE NoPrev
        /\ before' = [members |-> members, teams |-> teams, people |-> people,
                      nextPersonId |-> nextPersonId]
        /\ results' = EmptyResults
        /\ calls' = << >>
        /\ outcome' = << >>
        /\ idx' = 1
        /\ IF body = "bad"
           THEN /\ pc' = "fatal"
                /\ response' = ErrorResponse(FALSE, 0, "body")
                /\ snapMembers' = << >>
                /\ teamToGroupMap' = << >>
                /\ doorflowPeople' = << >>
           ELSE /\ snapMembers' = LoadAllMembers
                /\ teamToGroupMap' = TeamToGroupMap(LoadAllTeams)
                /\ IF listing = "ok"
                   THEN /\ pc' = "loop"
                        /\ doorflowPeople' = people
                        /\ response' = NoResponse
                   ELSE /\ pc' = "fatal"
                        /\ doorflowPeople' = << >>
                        /\ response' =
                              CASE listing = "401" -> ErrorResponse(TRUE, 401, "listing")
                                [] listing = "404" -> ErrorResponse(TRUE, 404, "listing")
                                [] listing = "503" -> ErrorResponse(TRUE, 503, "listing")
                                [] OTHER -> ErrorResponse(FALSE, 0, "listing")
        /\ UNCHANGED <<members, teams, people, nextPersonId, now, createMissing, dryRun,
                       resolve, loaded>>
        /\ UNCHANGED apiVars
        /\ UNCHANGED raceVars

FaultsOf(o) ==
    (IF o.unlink = "throw" THEN 1 ELSE 0) + (IF o.link = "throw" THEN 1 ELSE 0)
    + (IF o.create = "fail" THEN 1 ELSE 0) + (IF o.update = "fail" THEN 1 ELSE 0)

\* one iteration of the loop of POST, with the outcome of each call it makes
SyncStep ==
    \E uw \in {"ok", "throw"}, lw \in {"ok", "throw"},
       cr \in {"ok", "fail"}, up \in {"ok", "fail"} :
        /\ pc = "loop"
        /\ idx <= Len(snapMembers)
        \* a call that is not made has no outcome to choose
        /\ faults >= MaxFaults => (uw = "ok" /\ lw = "ok" /\ cr = "ok" /\ up = "ok")
        /\ dryRun => (uw = "ok" /\ lw = "ok" /\ cr = "ok" /\ up = "ok")
        /\ uw = "throw" => snapMembers[idx].doorflowPersonId # NULL
        /\ cr = "fail" => createMissing
        /\ LET member == snapMembers[idx]
               s0 == [members |-> IF loaded.open THEN loaded.members ELSE members,
                      people |-> people,
                      nextPersonId |-> nextPersonId, now |-> now,
                      results |-> results, calls |-> calls,
                      out |-> NoOutcome(member.id), thrown |-> FALSE,
                      fatal |-> FALSE, newId |-> NULL]
               s == ProcessMember(s0, member, doorflowPeople, createMissing,
                                  dryRun, teamToGroupMap, uw, lw, cr, up)
           IN  /\ uw = "throw" => s.out.unlink = "throw"
               /\ lw = "throw" => s.out.link = "throw"
               /\ cr = "fail" => s.out.create = "fail"
               /\ up = "fail" => s.out.update = "fail"
               /\ faults + FaultsOf(s.out) <= MaxFaults
               /\ faults' = faults + FaultsOf(s.out)
               \* a save writes what its updateMember loaded
               /\ members' = IF loaded.open /\ s.members = loaded.members
                             THEN members ELSE s.members
               /\ people' = s.people
               /\ nextPersonId' = s.nextPersonId
               /\ now' = s.now
               /\ calls' = s.calls
               /\ outcome' = Append(outcome, s.out)
               /\ IF s.fatal
                  THEN /\ pc' = "fatal"
                       /\ response' = ErrorResponse(FALSE, 0, "write")
                       /\ results' = results
                       /\ idx' = idx
                  ELSE /\ pc' = "loop"
                       /\ response' = response
                       /\ results' = s.results
                       /\ idx' = idx + 1
        /\ loaded' = NoLoaded
        /\ UNCHANGED <<teams, createMissing, dryRun, snapMembers, teamToGroupMap,
                       doorflowPeople, runs, before, prev, resolve>>
        /\ UNCHANGED apiVars
        /\ UNCHANGED raceVars

\* return NextResponse.json(results)
SyncReturn ==
    /\ pc = "loop"
    /\ idx > Len(snapMembers)
    /\ pc' = "done"
    /\ response' = [status |-> 200, error |-> "", cause |-> "none",
                    remoteStatus |-> 0, hasResult |-> TRUE, result |-> results]
    /\ UNCHANGED <<members, teams, people, nextPersonId, now, createMissing, dryRun,
                   snapMembers, teamToGroupMap, doorflowPeople, idx, results,
                   calls, outcome, faults, runs, before, prev, resolve, loaded>>
    /\ UNCHANGED apiVars
    /\ UNCHANGED raceVars

Next == SyncBegin \/ SyncStep \/ SyncReturn

Spec == Init /\ [][Next]_vars

(* ------------------ the group resolution on its own -------------------- *)
Seqs(S, n) == UNION {[1..k -> S] : k \in 0..n}

\* every mapping of two stored teams to no group, group 5 or group 6
AllTeamStores ==
    {<<Team("t1", g1), Team("t2", g2)>> : g1 \in {NULL, 5, 6}, g2 \in {NULL, 5, 6}}

InitGroups ==
    /\ members = << >>
    /\ teams \in AllTeamStores
    /\ people = << >>
    /\ resolve \in {[NoResolve EXCEPT !.teamIds = q] : q \in Seqs({"t1", "t2", "t3"}, MaxTeamIds)}
    /\ nextPersonId = FirstNewId
    /\ now = 0
    /\ pc = "idle"
    /\ createMissing = FALSE
    /\ dryRun = FALSE
    /\ snapMembers = << >>
    /\ teamToGroupMap = << >>
    /\ doorflowPeople = << >>
    /\ idx = 0
    /\ results = EmptyResults
    /\ response = NoResponse
    /\ calls = << >>
    /\ outcome = << >>
    /\ faults = 0
    /\ runs = 0
    /\ before = [members |-> members, teams |-> teams, people |-> people,
                 nextPersonId |-> nextPersonId]
    /\ prev = NoPrev
    /\ connected = TRUE
    /\ uuids = 0
    /\ api = NoApi
    /\ loaded = NoLoaded
    /\ rival = NoRival

\* getGroupIdsForMember on a member with these teamIds, as the sync engine
\* calls it, and getDoorflowGroupIdsForTeams, as the routes call it
ResolveGroups ==
    /\ ~resolve.answered
    /\ resolve' = [resolve EXCEPT
                      !.answered = TRUE,
                      !.sync = GetGroupIdsForMember([teamIds |-> resolve.teamIds],
                                                    TeamToGroupMap(LoadAllTeams)),
                      !.storage = GetDoorflowGroupIdsForTeams(LoadAllTeams, resolve.teamIds)]
    /\ UNCHANGED <<members, teams, people, nextPersonId, now, pc, createMissing,
                   dryRun, snapMembers, teamToGroupMap, doorflowPeople, idx,
                   results, response, calls, outcome, faults, runs, before, prev,
                   loaded>>
    /\ UNCHANGED apiVars
    /\ UNCHANGED raceVars

NextGroups == ResolveGroups

SpecGroups == InitGroups /\ [][NextGroups]_vars

(* -------------------- member, team and reset requests ------------------ *)
\* getMember: the position of the member, 0 when there is none
GetMember(ms, id) == FindIndex(ms, id)

\* getMemberByEmail finds a member
GetMemberByEmail(ms, email) ==
    \E i \in DOMAIN ms : ToLowerCase(ms[i].email) = ToLowerCase(email)

\* the fields of a JSON body as the `updates` of updateMember
Updates(body) == [f \in body.has |-> body[f]]

\* bodies of PUT /api/members/[id]: another name, other teams, no team, null
\* for the teams, a link with teams, an unlink with teams, an id, the email
\* of member m1 in lower case and as stored, an email nobody has, an empty
\* email
PutBodies ==
    { Body({"name"}, "", "zed_zed", << >>, << >>, NULL),
      Body({"teamIds"}, "", "", << >>, <<"t2", "t3">>, NULL),
      Body({"teamIds"}, "", "", << >>, << >>, NULL),
      Body({"teamIds"}, "", "", << >>, NullList, NULL),
      Body({"teamIds", "doorflowPersonId"}, "", "", << >>, <<"t1">>, 1),
      Body({"teamIds", "doorflowPersonId"}, "", "", << >>, <<"t1">>, NULL),
      Body({"id"}, "m2", "", << >>, << >>, NULL),
      Body({"email"}, "", "", <<"a", "l">>, << >>, NULL),
      Body({"email"}, "", "", <<"A", "l">>, << >>, NULL),
      Body({"email"}, "", "", <<"c">>, << >>, NULL),
      Body({"email"}, "", "", << >>, << >>, NULL) }

\* ids a request names: stored members and an unknown one
MemberTargets == {"m1", "m2", "zz"}

ApiResponse(op, id, body, status, cs) ==
    [seq |-> api.seq + 1, op |-> op, id |-> id, body |-> body, status |-> status,
     calls |-> cs, members |-> members, teams |-> teams, people |-> people]

\* syncMemberGroupsToDoorFlow of the member and team routes: the updatePerson
\* it issues; the call succeeds when r is "ok" and the person exists
GroupPush(ts, ps, personId, teamIds, r) ==
    LET groupIds == GetDoorflowGroupIdsForTeams(ts, teamIds)
    IN  Call("updatePerson", "", personId, TRUE, groupIds, FALSE,
             r = "ok" /\ \E i \in DOMAIN ps : ps[i].id = personId)

\* the directory after the remote calls of a request
ApplyCalls(ps, cs) ==
    LET RECURSIVE go(_, _)
        go(q, k) ==
            IF k > Len(cs) THEN q
            ELSE go(IF cs[k].op = "updatePerson" /\ cs[k].ok
                    THEN UpdatePerson(q, cs[k].personId,
                                      [hasGroupIds |-> cs[k].hasGroupIds,
                                       groupIds |-> cs[k].groupIds,
                                       image |-> cs[k].image])
                    ELSE q, k + 1)
    IN  go(ps, 1)

\* String.prototype.trim on the names the model uses
Trim(name) == IF name = " " THEN "" ELSE name

\* a body of POST /api/teams or PUT /api/teams/[id]
TeamBody(has, name, groupId) ==
    [has |-> has, name |-> name, doorflowGroupId |-> groupId]

\* bodies of PUT /api/teams/[id]: a mapping to group 8 or 5, an unmapping,
\* an empty name with a mapping
TeamBodies ==
    { TeamBody({"doorflowGroupId"}, "", 8),
      TeamBody({"doorflowGroupId"}, "", 5),
      TeamBody({"doorflowGroupId"}, "", NULL),
      TeamBody({"name", "doorflowGroupId"}, "", 8) }

TeamTargets == {"t1", "t2", "zz"}

\* mutant: the first failing push ends the loop
TeamPushes_StopAtFailure(ts, ms, ps, teamId, failAt) ==
    LET teamMembers ==
            SelectSeq(ms, LAMBDA m : /\ teamId \in Range(OrEmpty(m.teamIds))
                                     /\ m.doorflowPersonId # NULL)
        n == IF failAt \in 1..Len(teamMembers) THEN failAt ELSE Len(teamMembers)
    IN  [k \in 1..n |->
            GroupPush(ts, ps, teamMembers[k].doorflowPersonId,
                      OrEmpty(teamMembers[k].teamIds),
                      IF k = failAt THEN "fail" ELSE "ok")]

\* syncTeamMembersToDoorFlow: the updatePerson calls it issues, the one at
\* failAt failing
TeamPushes(ts, ms, ps, teamId, failAt) ==
    LET teamMembers ==
            SelectSeq(ms, LAMBDA m : /\ teamId \in Range(OrEmpty(m.teamIds))
                                     /\ m.doorflowPersonId # NULL)
    IN  [k \in 1..Len(teamMembers) |->
            GroupPush(ts, ps, teamMembers[k].doorflowPersonId,
                      OrEmpty(teamMembers[k].teamIds),
                      IF k = failAt THEN "fail" ELSE "ok")]

\* mutant: the name is validated after the update is stored
TeamPut_ValidateAfterWrite ==
    \E id \in TeamTargets, body \in TeamBodies,
       w \in {"ok", "throw"}, failAt \in 0..MaxMembers :
        /\ api.seq < MaxRequests
        /\ (w = "throw" \/ failAt # 0) => faults < MaxFaults
        /\ ~(w = "throw" /\ failAt # 0)
        /\ LET index == FindIndex(teams, id)
               existingTeam == teams[index]
               nameEmpty == "name" \in body.has /\ Trim(body.name) = ""
               groupMappingChanging ==
                   /\ "doorflowGroupId" \in body.has
                   /\ body.doorflowGroupId # existingTeam.doorflowGroupId
               updates == [f \in body.has \cap {"doorflowGroupId"} |-> body[f]]
               stored == UpdateTeam(teams, id, updates, now + 1)
               pushing == groupMappingChanging /\ connected
               cs == IF pushing
                     THEN TeamPushes(stored, LoadAllMembers, people, id, failAt)
                     ELSE << >>
           IN  IF index = 0
               THEN /\ w = "ok" /\ failAt = 0
                    /\ api' = ApiResponse("putTeam", id, body, 404, << >>)
                    /\ UNCHANGED <<teams, people, now, faults>>
               ELSE IF nameEmpty
               THEN /\ w = "ok" /\ failAt = 0
                    /\ api' = ApiResponse("putTeam", id, body, 400, << >>)
                    /\ teams' = stored
                    /\ now' = now + 1
                    /\ UNCHANGED <<people, faults>>
               ELSE IF w = "throw"
               THEN /\ api' = ApiResponse("putTeam", id, body, 500, << >>)
                    /\ now' = now + 1
                    /\ faults' = faults + 1
                    /\ UNCHANGED <<teams, people>>
               ELSE /\ failAt # 0 => (failAt <= Len(cs) /\ \E i \in DOMAIN people :
                                          people[i].id = cs[failAt].personId)
                    /\ api' = ApiResponse("putTeam", id, body, 200, cs)
                    /\ teams' = stored
                    /\ people' = ApplyCalls(people, cs)
                    /\ now' = now + 1
                    /\ faults' = IF failAt # 0 THEN faults + 1 ELSE faults
        /\ UNCHANGED <<members, nextPersonId, connected, uuids, loaded>>
        /\ UNCHANGED syncVars
        /\ UNCHANGED raceVars

\* PUT /api/teams/[id]
TeamPut ==
    \E id \in TeamTargets, body \in TeamBodies,
       w \in {"ok", "throw"}, failAt \in 0..MaxMembers :
        /\ api.seq < MaxRequests
        /\ (w = "throw" \/ failAt # 0) => faults < MaxFaults
        /\ ~(w = "throw" /\ failAt # 0)
        /\ LET index == FindIndex(teams, id)
               existingTeam == teams[index]
               nameEmpty == "name" \in body.has /\ Trim(body.name) = ""
               groupMappingChanging ==
                   /\ "doorflowGroupId" \in body.has
                   /\ body.doorflowGroupId # existingTeam.doorflowGroupId
               updates == [f \in body.has \cap {"doorflowGroupId"} |-> body[f]]
               stored == UpdateTeam(teams, id, updates, now + 1)
               pushing == groupMappingChanging /\ connected
               cs == IF pushing
                     THEN TeamPushes(stored, LoadAllMembers, people, id, failAt)
                     ELSE << >>
           IN  IF index = 0
               THEN /\ w = "ok" /\ failAt = 0
                    /\ api' = ApiResponse("putTeam", id, body, 404, << >>)
                    /\ UNCHANGED <<teams, people, now, faults>>
               ELSE IF nameEmpty
               THEN /\ w = "ok" /\ failAt = 0
                    /\ api' = ApiResponse("putTeam", id, body, 400, << >>)
                    /\ UNCHANGED <<teams, people, now, faults>>
               ELSE IF w = "throw"
               THEN /\ api' = ApiResponse("putTeam", id, body, 500, << >>)
                    /\ now' = now + 1
                    /\ faults' = faults + 1
                    /\ UNCHANGED <<teams, people>>
               ELSE /\ failAt # 0 => (failAt <= Len(cs) /\ \E i \in DOMAIN people :
                                          people[i].id = cs[failAt].personId)
                    /\ api' = ApiResponse("putTeam", id, body, 200, cs)
                    /\ teams' = stored
                    /\ people' = ApplyCalls(people, cs)
                    /\ now' = now + 1
                    /\ faults' = IF failAt # 0 THEN faults + 1 ELSE faults
        /\ UNCHANGED <<members, nextPersonId, connected, uuids, loaded>>
        /\ UNCHANGED syncVars
        /\ UNCHANGED raceVars

\* PUT /api/members/[id] for one of the ids with one of the bodies
MemberPutOf(ids, bodies) ==
    \E id \in ids, body \in bodies,
       w \in {"ok", "throw"}, up \in {"ok", "fail"} :
        /\ api.seq < MaxRequests
        /\ (w = "throw" \/ up = "fail") => faults < MaxFaults
        /\ ~(w = "throw" /\ up = "fail")
        /\ LET index == GetMember(members, id)
               existing == members[index]
               emailTaken == /\ "email" \in body.has
                             /\ TruthyStr(body.email)
                             /\ body.email # existing.email
                             /\ GetMemberByEmail(members, body.email)
               teamsChanging == "teamIds" \in body.has
               \* body.teamIds ?? existing.teamIds ?? []
               newTeamIds == IF teamsChanging /\ body.teamIds # NullList
                             THEN body.teamIds
                             ELSE OrEmpty(existing.teamIds)
               stored == UpdateMember(members, id, Updates(body), now + 1)
               updated == stored[index]
               pushing == teamsChanging /\ updated.doorflowPersonId # NULL /\ connected
               cs == IF pushing
                     THEN <<GroupPush(teams, people, updated.doorflowPersonId, newTeamIds, up)>>
                     ELSE << >>
           IN  IF index = 0
               THEN /\ w = "ok" /\ up = "ok"
                    /\ api' = ApiResponse("putMember", id, body, 404, << >>)
                    /\ UNCHANGED <<members, people, now, faults>>
               ELSE IF emailTaken
               THEN /\ w = "ok" /\ up = "ok"
                    /\ api' = ApiResponse("putMember", id, body, 409, << >>)
                    /\ UNCHANGED <<members, people, now, faults>>
               ELSE IF w = "throw"
               THEN /\ api' = ApiResponse("putMember", id, body, 500, << >>)
                    /\ now' = now + 1
                    /\ faults' = faults + 1
                    /\ UNCHANGED <<members, people>>
               ELSE /\ up = "fail" => pushing
                    /\ api' = ApiResponse("putMember", id, body, 200, cs)
                    /\ members' = stored
                    /\ people' = ApplyCalls(people, cs)
                    /\ now' = now + 1
                    /\ faults' = IF up = "fail" THEN faults + 1 ELSE faults
        /\ UNCHANGED <<teams, nextPersonId, connected, uuids, loaded>>
        /\ UNCHANGED syncVars
        /\ UNCHANGED raceVars

\* PUT /api/members/[id]
MemberPut == MemberPutOf(MemberTargets, PutBodies)

\* ids uuidv4() hands out, in the order it is called
NewMemberIds == <<"u1", "u2", "u3", "u4">>

\* bodies of POST /api/members: a new member, a member with the email of a
\* stored one in another letter case, a body without the names
PostBodies ==
    { Body({"name", "email", "teamIds"}, "", "carol_williams", <<"c">>, <<"t1", "t3">>, NULL),
      Body({"name", "email"}, "", "carol_williams", <<"a", "L">>, << >>, NULL),
      Body({"email", "teamIds"}, "", "", <<"c">>, <<"t1">>, NULL) }

\* createMember: the store after the call
CreateMember(ms, id, input, time) ==
    Append(ms, [id |-> id, name |-> input.name, email |-> input.email,
                teamIds |-> input.teamIds,
                doorflowPersonId |-> input.doorflowPersonId,
                updatedAt |-> time])

\* POST /api/members
MemberPost ==
    \E body \in PostBodies, w \in {"ok", "throw"}, cr \in {"ok", "fail"} :
        /\ api.seq < MaxRequests
        /\ uuids < Len(NewMemberIds)
        /\ (w = "throw" \/ cr = "fail") => faults < MaxFaults
        /\ ~(w = "throw" /\ cr = "fail")
        /\ cr = "fail" => connected
        /\ LET invalid == \/ "name" \notin body.has \/ body.name = ""
                          \/ "email" \notin body.has \/ ~TruthyStr(body.email)
               teamIds == IF "teamIds" \in body.has THEN OrEmpty(body.teamIds) ELSE << >>
               groupIds == GetDoorflowGroupIdsForTeams(teams, teamIds)
               creating == connected /\ cr = "ok"
               doorflowPersonId == IF creating THEN nextPersonId ELSE NULL
               cs == IF connected
                     THEN <<Call("createPerson", "", doorflowPersonId, TRUE, groupIds,
                                 FALSE, cr = "ok")>>
                     ELSE << >>
               input == [name |-> body.name, email |-> body.email,
                         teamIds |-> teamIds, doorflowPersonId |-> doorflowPersonId]
           IN  IF invalid
               THEN /\ w = "ok" /\ cr = "ok"
                    /\ api' = ApiResponse("postMember", "", body, 400, << >>)
                    /\ UNCHANGED <<members, people, nextPersonId, now, faults, uuids>>
               ELSE IF GetMemberByEmail(members, body.email)
               THEN /\ w = "ok" /\ cr = "ok"
                    /\ api' = ApiResponse("postMember", "", body, 409, << >>)
                    /\ UNCHANGED <<members, people, nextPersonId, now, faults, uuids>>
               ELSE /\ people' = IF creating
                                 THEN CreatePerson(people, nextPersonId,
                                         [email |-> body.email, groupIds |-> groupIds,
                                          image |-> FALSE, systemId |-> ""])
                                 ELSE people
                    /\ nextPersonId' = IF creating THEN nextPersonId + 1 ELSE nextPersonId
                    /\ uuids' = uuids + 1
                    /\ now' = now + 1
                    /\ faults' = IF w = "throw" \/ cr = "fail" THEN faults + 1 ELSE faults
                    /\ IF w = "throw"
                       THEN /\ api' = ApiResponse("postMember", "", body, 500, cs)
                            /\ UNCHANGED members
                       ELSE /\ api' = ApiResponse("postMember", NewMemberIds[uuids + 1],
                                                  body, 201, cs)
                            /\ members' = CreateMember(members, NewMemberIds[uuids + 1],
                                                       input, now + 1)
        /\ UNCHANGED <<teams, connected, loaded>>
        /\ UNCHANGED syncVars
        /\ UNCHANGED raceVars

\* peopleApi.deletePerson, when it succeeds
DeletePerson(ps, id) == SelectSeq(ps, LAMBDA q : q.id # id)

\* deleteMember and deleteTeam: the store without its first entry of that id
DeleteById(store, id) ==
    LET index == FindIndex(store, id)
    IN  [k \in 1..(Len(store) - 1) |-> IF k < index THEN store[k] ELSE store[k + 1]]

\* DELETE /api/members/[id]
MemberDelete ==
    \E id \in MemberTargets, w \in {"ok", "throw"}, dl \in {"ok", "fail"} :
        /\ api.seq < MaxRequests
        /\ (w = "throw" \/ dl = "fail") => faults < MaxFaults
        /\ ~(w = "throw" /\ dl = "fail")
        /\ LET index == GetMember(members, id)
               member == members[index]
               remote == member.doorflowPersonId # NULL /\ connected
               deleted == /\ dl = "ok"
                          /\ \E i \in DOMAIN people : people[i].id = member.doorflowPersonId
               cs == IF remote
                     THEN <<Call("deletePerson", "", member.doorflowPersonId, FALSE,
                                 << >>, FALSE, deleted)>>
                     ELSE << >>
           IN  IF index = 0
               THEN /\ w = "ok" /\ dl = "ok"
                    /\ api' = ApiResponse("deleteMember", id, NoBody, 404, << >>)
                    /\ UNCHANGED <<members, people, faults>>
               ELSE /\ dl = "fail" => remote
                    /\ people' = IF remote /\ deleted
                                 THEN DeletePerson(people, member.doorflowPersonId)
                                 ELSE people
                    /\ faults' = IF w = "throw" \/ dl = "fail" THEN faults + 1 ELSE faults
                    /\ IF w = "throw"
                       THEN /\ api' = ApiResponse("deleteMember", id, NoBody, 500, cs)
                            /\ UNCHANGED members
                       ELSE /\ api' = ApiResponse("deleteMember", id, NoBody, 200, cs)
                            /\ members' = DeleteById(members, id)
        /\ UNCHANGED <<teams, nextPersonId, now, connected, uuids, loaded>>
        /\ UNCHANGED syncVars
        /\ UNCHANGED raceVars

\* ids uuidv4() hands out to teams, in the order it is called
NewTeamIds == <<"v1", "v2", "v3", "v4">>

\* bodies of POST /api/teams: a named team mapped to group 8, a named team
\* without a mapping, a blank name, no name
TeamPostBodies ==
    { TeamBody({"name", "doorflowGroupId"}, "ops", 8),
      TeamBody({"name"}, "ops", NULL),
      TeamBody({"name", "doorflowGroupId"}, " ", 8),
      TeamBody({"doorflowGroupId"}, "", 8) }

\* createTeam: the store after the call
CreateTeam(ts, id, groupId, time) ==
    Append(ts, [id |-> id, doorflowGroupId |-> groupId, updatedAt |-> time])

\* POST /api/teams
TeamPost ==
    \E body \in TeamPostBodies, w \in {"ok", "throw"} :
        /\ api.seq < MaxRequests
        /\ uuids < Len(NewTeamIds)
        /\ w = "throw" => faults < MaxFaults
        /\ IF "name" \notin body.has \/ Trim(body.name) = ""
           THEN /\ w = "ok"
                /\ api' = ApiResponse("postTeam", "", body, 400, << >>)
                /\ UNCHANGED <<teams, now, faults, uuids>>
           ELSE /\ uuids' = uuids + 1
                /\ now' = now + 1
                /\ faults' = IF w = "throw" THEN faults + 1 ELSE faults
                /\ IF w = "throw"
                   THEN /\ api' = ApiResponse("postTeam", "", body, 500, << >>)
                        /\ UNCHANGED teams
                   ELSE /\ api' = ApiResponse("postTeam", NewTeamIds[uuids + 1], body,
                                              201, << >>)
                        \* doorflowGroupId: body.doorflowGroupId || null
                        /\ teams' = CreateTeam(teams, NewTeamIds[uuids + 1],
                                               IF "doorflowGroupId" \in body.has
                                               THEN body.doorflowGroupId ELSE NULL,
                                               now + 1)
        /\ UNCHANGED <<members, people, nextPersonId, connected, loaded>>
        /\ UNCHANGED syncVars
        /\ UNCHANGED raceVars

\* DELETE /api/teams/[id]
TeamDelete ==
    \E id \in TeamTargets, w \in {"ok", "throw"} :
        /\ api.seq < MaxRequests
        /\ w = "throw" => faults < MaxFaults
        /\ IF FindIndex(teams, id) = 0
           THEN /\ w = "ok"
                /\ api' = ApiResponse("deleteTeam", id, NoBody, 404, << >>)
                /\ UNCHANGED <<teams, faults>>
           ELSE IF w = "throw"
           THEN /\ api' = ApiResponse("deleteTeam", id, NoBody, 500, << >>)
                /\ faults' = faults + 1
                /\ UNCHANGED teams
           ELSE /\ api' = ApiResponse("deleteTeam", id, NoBody, 200, << >>)
                /\ teams' = DeleteById(teams, id)
                /\ UNCHANGED faults
        /\ UNCHANGED <<members, people, nextPersonId, now, connected, uuids, loaded>>
        /\ UNCHANGED syncVars
        /\ UNCHANGED raceVars

\* PUT /api/members/[id] of a stored member with a body that carries a name
MemberEdit ==
    MemberPutOf({"m1", "m2"}, {Body({"name"}, "", "zed_zed", << >>, << >>, NULL)})

\* emails and teamIds of the sample members, by position
SampleEmails == << <<"a", "s">>, <<"b", "j">>, <<"c", "w">>, <<"e", "m">> >>

SampleTeamIds == << <<"t1">>, <<"t2">>, <<"t1", "t3">>, << >> >>

\* mutant: the first sample member keeps a link
ResetMembers_Linked(time) ==
    [i \in 1..4 |->
        [id |-> MemberIds[i], name |-> MemberNames[i], email |-> SampleEmails[i],
         teamIds |-> SampleTeamIds[i], doorflowPersonId |-> IF i = 1 THEN 1 ELSE NULL,
         updatedAt |-> time]]

\* resetMembers: the store it saves
ResetMembers(time) ==
    [i \in 1..4 |->
        [id |-> MemberIds[i], name |-> MemberNames[i], email |-> SampleEmails[i],
         teamIds |-> SampleTeamIds[i], doorflowPersonId |-> NULL,
         updatedAt |-> time]]

\* resetTeams: the store it saves
ResetTeams(time) ==
    [i \in 1..3 |->
        [id |-> <<"t1", "t2", "t3">>[i], doorflowGroupId |-> NULL, updatedAt |-> time]]

\* a step of the reset request, as an entry of its log
ResetCall(op, ok) == Call(op, "", NULL, FALSE, << >>, FALSE, ok)

\* POST /api/reset: disconnect, then reset the members, then the teams
Reset ==
    \E d \in {"ok", "fail"}, w1 \in {"ok", "throw"}, w2 \in {"ok", "throw"} :
        /\ api.seq < MaxRequests
        /\ (d = "fail" \/ w1 = "throw" \/ w2 = "throw") => faults < MaxFaults
        /\ Cardinality({x \in {<<1, d>>, <<2, w1>>, <<3, w2>>} : x[2] # "ok"}) <= 1
        /\ connected' = IF d = "ok" THEN FALSE ELSE connected
        /\ faults' = IF d = "fail" \/ w1 = "throw" \/ w2 = "throw"
                      THEN faults + 1 ELSE faults
        /\ IF w1 = "throw"
           THEN /\ api' = ApiResponse("reset", "", NoBody, 500,
                                    <<ResetCall("disconnect", d = "ok"),
                                      ResetCall("saveAllMembers", FALSE)>>)
                /\ now' = now + 1
                /\ UNCHANGED <<members, teams>>
           ELSE IF w2 = "throw"
           THEN /\ api' = ApiResponse("reset", "", NoBody, 500,
                                    <<ResetCall("disconnect", d = "ok"),
                                      ResetCall("saveAllMembers", TRUE),
                                      ResetCall("saveAllTeams", FALSE)>>)
                /\ members' = ResetMembers(now + 1)
                /\ now' = now + 2
                /\ UNCHANGED teams
           ELSE /\ api' = ApiResponse("reset", "", NoBody, 200,
                                    <<ResetCall("disconnect", d = "ok"),
                                      ResetCall("saveAllMembers", TRUE),
                                      ResetCall("saveAllTeams", TRUE)>>)
                /\ members' = ResetMembers(now + 1)
                /\ teams' = ResetTeams(now + 2)
                /\ now' = now + 2
        /\ UNCHANGED <<people, nextPersonId, uuids, loaded>>
        /\ UNCHANGED syncVars
        /\ UNCHANGED raceVars

\* the loop of POST /api/members/sync has entered MemberStorage.update for
\* the member at idx, the first call of the iteration: loadAllMembers has
\* answered and saveAllMembers has not written yet
SyncWriteLoad ==
    /\ pc = "loop"
    /\ idx <= Len(snapMembers)
    /\ ~dryRun
    /\ ~loaded.open
    /\ LET member == snapMembers[idx]
       IN  /\ FindIndex(members, member.id) # 0
           /\ IF member.doorflowPersonId # NULL
              THEN ~FindPerson(doorflowPeople, member.doorflowPersonId)
              ELSE /\ TruthyStr(member.email)
                   /\ MapGet(PeopleByEmail(doorflowPeople), ToLowerCase(member.email)).id # NULL
    /\ loaded' = [open |-> TRUE, members |-> LoadAllMembers]
    /\ UNCHANGED <<members, teams, people, nextPersonId, now, faults>>
    /\ UNCHANGED syncVars
    /\ UNCHANGED apiVars
    /\ UNCHANGED raceVars

\* stores the requests are tried on: a linked and a stale member, an
\* unlinked member with a linked one, two linked members
ApiStores ==
    { <<Member(1, <<"A", "l">>, 1), Member(2, <<"b", "o">>, StaleId)>>,
      <<Member(1, <<"A", "l">>, NULL), Member(2, <<"b", "o">>, 2)>>,
      <<Member(1, <<"A", "l">>, 1), Member(2, <<"b", "o">>, 2)>> }

InitApi ==
    /\ members \in ApiStores
    /\ teams = <<Team("t1", 5), Team("t2", 6)>>
    /\ people = <<Person(1, <<"a", "l">>, <<7>>), Person(2, NullStr, << >>),
                  Person(3, << >>, << >>)>>
    /\ resolve = NoResolve
    /\ nextPersonId = FirstNewId
    /\ now = 0
    /\ pc = "idle"
    /\ createMissing \in BOOLEAN
    /\ dryRun = FALSE
    /\ snapMembers = << >>
    /\ teamToGroupMap = << >>
    /\ doorflowPeople = << >>
    /\ idx = 0
    /\ results = EmptyResults
    /\ response = NoResponse
    /\ calls = << >>
    /\ outcome = << >>
    /\ faults = 0
    /\ runs = 0
    /\ before = [members |-> members, teams |-> teams, people |-> people,
                 nextPersonId |-> nextPersonId]
    /\ prev = NoPrev
    /\ connected \in BOOLEAN
    /\ uuids = 0
    /\ api = NoApi
    /\ loaded = NoLoaded
    /\ rival = NoRival

\* a sync request with name edits arriving while it runs
NextEdit == SyncBegin \/ SyncWriteLoad \/ SyncStep \/ SyncReturn \/ MemberEdit

SpecEdit == InitApi /\ [][NextEdit]_vars

\* member, team and reset requests one after the other
NextApi ==
    \/ MemberPost \/ MemberPut \/ MemberDelete
    \/ TeamPost \/ TeamPut \/ TeamDelete
    \/ Reset

SpecApi == InitApi /\ [][NextApi]_vars

(* --------------------- two sync requests at once ----------------------- *)
\* stores two overlapping runs are tried on: a member without email, a stale
\* member nobody matches before a member person 1 matches, two members
\* nobody matches, a linked member before a member without email, a member
\* linked to person 1 under another email before a member person 1 matches
RaceStores ==
    { <<Member(1, << >>, NULL)>>,
      <<Member(1, <<"b", "o">>, StaleId), Member(2, <<"A", "l">>, NULL)>>,
      <<Member(1, << >>, NULL), Member(2, <<"b", "o">>, NULL)>>,
      <<Member(1, <<"A", "l">>, 1), Member(2, << >>, NULL)>>,
      <<Member(1, <<"b", "o">>, 1), Member(2, <<"A", "l">>, NULL)>> }

InitRace ==
    /\ members \in RaceStores
    /\ teams = <<Team("t1", 5), Team("t2", 6)>>
    /\ people = <<Person(1, <<"a", "l">>, <<7>>), Person(2, NullStr, << >>),
                  Person(3, << >>, << >>)>>
    /\ resolve = NoResolve
    /\ nextPersonId = FirstNewId
    /\ now = 0
    /\ pc = "idle"
    /\ createMissing \in BOOLEAN
    /\ dryRun \in BOOLEAN
    /\ snapMembers = << >>
    /\ teamToGroupMap = << >>
    /\ doorflowPeople = << >>
    /\ idx = 0
    /\ results = EmptyResults
    /\ response = NoResponse
    /\ calls = << >>
    /\ outcome = << >>
    /\ faults = 0
    /\ runs = 0
    /\ before = [members |-> members, teams |-> teams, people |-> people,
                 nextPersonId |-> nextPersonId]
    /\ prev = NoPrev
    /\ connected = TRUE
    /\ uuids = 0
    /\ api = NoApi
    /\ loaded = NoLoaded
    /\ rival = NoRival

\* a second POST arrives while the loop of the first runs, with the same
\* body: it loads the members and the teams and lists the people
RivalBegin ==
    /\ rival.pc = "idle"
    /\ pc = "loop"
    /\ rival' = [pc |-> "loop", snapMembers |-> LoadAllMembers,
                 teamToGroupMap |-> TeamToGroupMap(LoadAllTeams),
                 doorflowPeople |-> people, idx |-> 1, results |-> EmptyResults,
                 calls |-> << >>, outcome |-> << >>]
    /\ UNCHANGED <<members, teams, people, nextPersonId, now, faults, loaded>>
    /\ UNCHANGED syncVars
    /\ UNCHANGED apiVars

\* one iteration of the loop of the second POST
RivalStep ==
    \E uw \in {"ok", "throw"}, lw \in {"ok", "throw"},
       cr \in {"ok", "fail"}, up \in {"ok", "fail"} :
        /\ rival.pc = "loop"
        /\ rival.idx <= Len(rival.snapMembers)
        /\ faults >= MaxFaults => (uw = "ok" /\ lw = "ok" /\ cr = "ok" /\ up = "ok")
        /\ dryRun => (uw = "ok" /\ lw = "ok" /\ cr = "ok" /\ up = "ok")
        /\ uw = "throw" => rival.snapMembers[rival.idx].doorflowPersonId # NULL
        /\ cr = "fail" => createMissing
        /\ LET member == rival.snapMembers[rival.idx]
               s0 == [members |-> members, people |-> people,
                      nextPersonId |-> nextPersonId, now |-> now,
                      results |-> rival.results, calls |-> rival.calls,
                      out |-> NoOutcome(member.id), thrown |-> FALSE,
                      fatal |-> FALSE, newId |-> NULL]
               s == ProcessMember(s0, member, rival.doorflowPeople, createMissing,
                                  dryRun, rival.teamToGroupMap, uw, lw, cr, up)
           IN  /\ uw = "throw" => s.out.unlink = "throw"
               /\ lw = "throw" => s.out.link = "throw"
               /\ cr = "fail" => s.out.create = "fail"
               /\ up = "fail" => s.out.update = "fail"
               /\ faults + FaultsOf(s.out) <= MaxFaults
               /\ faults' = faults + FaultsOf(s.out)
               /\ members' = s.members
               /\ people' = s.people
               /\ nextPersonId' = s.nextPersonId
               /\ now' = s.now
               /\ rival' = [rival EXCEPT
                               !.pc = IF s.fatal THEN "fatal" ELSE "loop",
                               !.idx = IF s.fatal THEN @ ELSE @ + 1,
                               !.results = IF s.fatal THEN @ ELSE s.results,
                               !.calls = s.calls,
                               !.outcome = Append(@, s.out)]
        /\ UNCHANGED <<teams, loaded>>
        /\ UNCHANGED syncVars
        /\ UNCHANGED apiVars

\* the second POST returns its results
RivalReturn ==
    /\ rival.pc = "loop"
    /\ rival.idx > Len(rival.snapMembers)
    /\ rival' = [rival EXCEPT !.pc = "done"]
    /\ UNCHANGED <<members, teams, people, nextPersonId, now, faults, loaded>>
    /\ UNCHANGED syncVars
    /\ UNCHANGED apiVars

NextRace ==
    SyncBegin \/ SyncStep \/ SyncReturn \/ RivalBegin \/ RivalStep \/ RivalReturn

SpecRace == InitRace /\ [][NextRace]_vars

\* sync requests one after the other over the same stores
SpecSolo == InitRace /\ [][Next]_vars

(* ------------------------ reading a behaviour -------------------------- *)
SeqOf(f(_), q) == [i \in 1..Len(q) |-> f(q[i])]

EntryId(e) == e.member.id

SelfId(m) == m.id

\* ids of the members in the four buckets of a SyncResult, one after the other
BucketIds(r) ==
    SeqOf(EntryId, r.matched) \o SeqOf(EntryId, r.created)
    \o SeqOf(SelfId, r.unmatched) \o SeqOf(EntryId, r.errors)

Occurrences(q, x) == Cardinality({i \in DOMAIN q : q[i] = x})

InBucket(q, id) == \E i \in DOMAIN q : q[i].member.id = id

\* the stored doorflowPersonId of a member, NULL when the member is not stored
StoredLink(id) ==
    IF FindIndex(members, id) = 0 THEN NULL
    ELSE members[FindIndex(members, id)].doorflowPersonId

\* the run got as far as listing the people
Listed == pc \in {"loop", "done"} \/ (pc = "fatal" /\ response.cause = "write")

\* the member was linked to a person the listing does not hold
Stale(m) == m.doorflowPersonId # NULL /\ ~FindPerson(doorflowPeople, m.doorflowPersonId)

\* two strings are equal up to the case of their letters
SameLetter(x, y) ==
    x = y \/ {x, y} \in {{"a", "A"}, {"b", "B"}, {"l", "L"}, {"o", "O"}}

EqualsIgnoreCase(a, b) ==
    Len(a) = Len(b) /\ \A i \in 1..Len(a) : SameLetter(a[i], b[i])

\* the people of the listing whose email is the member's up to letter case
EmailPeers(m) ==
    {i \in DOMAIN doorflowPeople :
        /\ TruthyStr(m.email)
        /\ TruthyStr(doorflowPeople[i].email)
        /\ EqualsIgnoreCase(m.email, doorflowPeople[i].email)}

\* the member went through the email match: it was unlinked or its link stale
Unlinked(m) == m.doorflowPersonId = NULL \/ Stale(m)

\* the bucket a member belongs to, from the member, the listing, the flags
\* and the outcome `o` of the calls made for this member alone
ExpectedBucket(m, o) ==
    IF ~Unlinked(m) \/ EmailPeers(m) # {} THEN "matched"
    ELSE IF ~createMissing THEN "unmatched"
    ELSE IF dryRun \/ (o.create = "ok" /\ o.link # "throw") THEN "created"
    ELSE "errors"

BucketOf(r, id) ==
    IF InBucket(r.matched, id) THEN "matched"
    ELSE IF InBucket(r.created, id) THEN "created"
    ELSE IF InBucket(r.errors, id) THEN "errors"
    ELSE IF \E i \in DOMAIN r.unmatched : r.unmatched[i].id = id THEN "unmatched"
    ELSE "none"

\* the personId reported with a member in matched or created
ReportedId(r, id) ==
    LET q == r.matched \o r.created
    IN  q[CHOOSE i \in DOMAIN q : q[i].member.id = id].personId

\* the link a member has in the store once it is classified
ExpectedLink(m, bucket, r) ==
    IF dryRun \/ ~Unlinked(m) THEN m.doorflowPersonId
    ELSE IF bucket \in {"matched", "created"} THEN ReportedId(r, m.id)
    ELSE NULL

\* the group ids of the stored teams that are among the team ids and mapped
MappedGroups(ts, teamIds) ==
    {ts[i].doorflowGroupId :
        i \in {j \in DOMAIN ts : ts[j].id \in Range(teamIds) /\ ts[j].doorflowGroupId # NULL}}

StoresUntouched ==
    /\ members = before.members
    /\ teams = before.teams
    /\ people = before.people
    /\ nextPersonId = before.nextPersonId

(* ------------------------------ claims --------------------------------- *)

\* C1: a sync run that returns a SyncResult has every loaded member exactly
\* once in matched, created, unmatched and errors taken together, whatever
\* the flags, so the four sizes add up to the number of members loaded.
C1_BucketExclusivity ==
    pc = "done" =>
        /\ response.hasResult
        /\ \A i \in DOMAIN snapMembers :
              Occurrences(BucketIds(response.result), snapMembers[i].id) = 1
        /\ Len(BucketIds(response.result)) = Len(snapMembers)

\* a finished run of two members, one of them in errors and one created
C1_Witness ==
    /\ pc = "done"
    /\ Len(snapMembers) = 2
    /\ Len(response.result.errors) = 1
    /\ Len(response.result.created) = 1

\* C2: a dry run writes no store and makes no remote create or update: the
\* member store, the team store and the directory are as before the run.
C2_DryRunNoOp ==
    (dryRun /\ pc \in {"loop", "done", "fatal"}) =>
        /\ StoresUntouched
        /\ calls = << >>

\* a finished dry run that reported a stale member as matched by email and
\* another member as created
C2_Witness ==
    /\ dryRun
    /\ pc = "done"
    /\ \E i \in DOMAIN snapMembers :
          /\ Stale(snapMembers[i])
          /\ InBucket(response.result.matched, snapMembers[i].id)
    /\ Len(response.result.created) = 1
    /\ response.result.created[1].personId = 0

\* C3 (as stated): a second run with the same flags and an unchanged remote
\* side returns the matched set of the first run, and no member with a
\* person created by the first run has another one created by the second.
C3_SameMatchedSet ==
    (pc = "done" /\ prev.valid) =>
        /\ MatchedPairs(response.result) = prev.matched
        /\ ~\E i \in DOMAIN people, j \in DOMAIN people :
              /\ people[i].systemId # ""
              /\ people[i].systemId = people[j].systemId
              /\ prev.nextPersonId <= people[i].id
              /\ people[i].id < before.nextPersonId
              /\ before.nextPersonId <= people[j].id

\* C3 (amended): every pair matched by the first run is matched again by the
\* second; the two matched sets are equal when the first run created no
\* remote person; and the second run asks for no remote person for a member
\* that the first run left linked.
C3_MatchedSetGrows ==
    (pc = "done" /\ prev.valid) =>
        /\ prev.matched \subseteq MatchedPairs(response.result)
        /\ before.nextPersonId = prev.nextPersonId =>
              MatchedPairs(response.result) = prev.matched
        /\ \A i \in DOMAIN calls :
              calls[i].op = "createPerson" => calls[i].target \notin prev.linked

\* a second creating run that reports as matched a member the first run created
C3_Witness ==
    /\ pc = "done"
    /\ prev.valid
    /\ createMissing /\ ~dryRun
    /\ prev.matched # {}
    /\ before.nextPersonId > prev.nextPersonId
    /\ prev.matched # MatchedPairs(response.result)
    /\ prev.linked # {}

\* C4 (as stated): in a non-dry run that listed the people, a member whose
\* link is not in the listing does not keep that link when the run ends; its
\* link is then the email-matched person, the person created for it, or null.
C4_StaleLinkHealed ==
    (~dryRun /\ pc \in {"done", "fatal"} /\ Listed) =>
        \A i \in DOMAIN snapMembers :
            Stale(snapMembers[i]) =>
                LET m == snapMembers[i]
                    link == StoredLink(m.id)
                IN  /\ link # m.doorflowPersonId
                    /\ \/ link = NULL
                       \/ \E j \in DOMAIN people :
                             /\ people[j].id = link
                             /\ \/ people[j].systemId = m.id
                                \/ FindPerson(doorflowPeople, link)

\* C5: when the creation of a remote person fails for a member, the member
\* is in errors with a message, the failure does not end the run, and every
\* other member is in the bucket, and has the stored link, that follow from
\* that member, the listing, the flags and its own calls alone.
C5_IsolatedCreateFailure ==
    \A k \in DOMAIN outcome :
        outcome[k].create = "fail" =>
            /\ \E i \in DOMAIN results.errors :
                  /\ results.errors[i].member.id = snapMembers[k].id
                  /\ results.errors[i].error # ""
            /\ outcome[k].bucket = "errors"
            /\ pc = "fatal" => Len(outcome) > k
            /\ pc = "done" => Len(outcome) = Len(snapMembers)
            /\ \A j \in DOMAIN outcome \ {k} :
                  outcome[j].bucket # "fatal" =>
                      LET m == snapMembers[j]
                          b == BucketOf(results, m.id)
                      IN  /\ b = ExpectedBucket(m, outcome[j])
                          /\ StoredLink(m.id) = ExpectedLink(m, b, results)
                          /\ b = "created" =>
                                \E i \in DOMAIN people :
                                    /\ people[i].id = StoredLink(m.id)
                                    /\ people[i].systemId = m.id

\* a finished run of two members: creation failed for the first, the second
\* was created and linked
C5_Witness ==
    /\ pc = "done"
    /\ Len(outcome) = 2
    /\ outcome[1].create = "fail"
    /\ outcome[2].create = "ok"
    /\ InBucket(results.created, snapMembers[2].id)
    /\ StoredLink(snapMembers[2].id) >= FirstNewId

\* C7: a member that goes through the email match is reported matched
\* exactly when some listed person has its email up to letter case, and then
\* with such a person; an empty email and a person without email match nothing.
C7_EmailMatch ==
    \A j \in DOMAIN outcome :
        LET m == snapMembers[j]
        IN  (Unlinked(m) /\ outcome[j].bucket # "fatal") =>
                /\ InBucket(results.matched, m.id) <=> EmailPeers(m) # {}
                /\ InBucket(results.matched, m.id) =>
                      \E i \in EmailPeers(m) :
                          doorflowPeople[i].id = ReportedId(results, m.id)
                /\ ~TruthyStr(m.email) => ~InBucket(results.matched, m.id)

\* an unlinked member matched to a person whose email is written differently,
\* while a member without email stays unmatched next to people without email
C7_Witness ==
    /\ pc = "done"
    /\ \E j \in DOMAIN snapMembers, i \in DOMAIN doorflowPeople :
          /\ snapMembers[j].doorflowPersonId = NULL
          /\ InBucket(results.matched, snapMembers[j].id)
          /\ doorflowPeople[i].id = ReportedId(results, snapMembers[j].id)
          /\ doorflowPeople[i].email # snapMembers[j].email
    /\ \E j \in DOMAIN snapMembers, i \in DOMAIN doorflowPeople :
          /\ snapMembers[j].email = << >>
          /\ doorflowPeople[i].email = << >>
          /\ BucketOf(results, snapMembers[j].id) = "unmatched"

\* C8: when the listing of the people fails, the response is an error
\* without a SyncResult, and the run has written no store and made no remote
\* create or update.
C8_ListingFailure ==
    (pc = "fatal" /\ response.cause = "listing") =>
        /\ ~response.hasResult
        /\ response.status \in {401, 404, 500, 503}
        /\ response.error # ""
        /\ response.result = EmptyResults
        /\ StoresUntouched
        /\ calls = << >>

\* a creating, non-dry request over a store with an unlinked member whose
\* listing failed
C8_Witness ==
    /\ pc = "fatal"
    /\ response.cause = "listing"
    /\ createMissing /\ ~dryRun
    /\ \E i \in DOMAIN snapMembers : snapMembers[i].doorflowPersonId = NULL

\* C9 (as stated): a request ends with a fatal error only before the loop,
\* so a fatal error follows no store write and no remote call of the run.
C9_FatalOnlyBeforeLoop ==
    pc = "fatal" =>
        /\ response.cause \in {"body", "listing"}
        /\ calls = << >>

\* C10: when the update of the email-matched person fails, the member is in
\* matched with that person, its link to that person is stored, it is not in
\* errors, and the loop goes on with the members after it.
C10_UpdateFailureKeepsMatch ==
    \A j \in DOMAIN outcome :
        outcome[j].update = "fail" =>
            LET m == snapMembers[j]
            IN  /\ outcome[j].bucket = "matched"
                /\ InBucket(results.matched, m.id)
                /\ \E i \in EmailPeers(m) :
                      /\ doorflowPeople[i].id = ReportedId(results, m.id)
                      /\ StoredLink(m.id) = doorflowPeople[i].id
                /\ ~InBucket(results.errors, m.id)
                /\ pc = "fatal" => Len(outcome) > j
                /\ pc = "done" => Len(outcome) = Len(snapMembers)

\* the update failed for the first of two members and the second was
\* processed after it
C10_Witness ==
    /\ pc = "done"
    /\ Len(outcome) = 2
    /\ outcome[1].update = "fail"
    /\ outcome[2].bucket \in {"matched", "created", "unmatched"}
    /\ StoredLink(snapMembers[1].id) = outcome[1].personId

\* C11: after a non-dry run that returned a SyncResult, every stored member
\* with a non-null doorflowPersonId references a person of the fetched list
\* or a person created by this run.
C11_LinkageInvariant ==
    (pc = "done" /\ ~dryRun) =>
        \A i \in DOMAIN members :
            members[i].doorflowPersonId # NULL =>
                \/ \E j \in DOMAIN doorflowPeople :
                      doorflowPeople[j].id = members[i].doorflowPersonId
                \/ \E k \in DOMAIN calls :
                      /\ calls[k].op = "createPerson"
                      /\ calls[k].ok
                      /\ calls[k].personId = members[i].doorflowPersonId

\* a finished non-dry run of two members that were both stale: one has no
\* email peer and ends unlinked, the other is linked to a listed person or
\* to a person the run created
C11_Witness ==
    /\ pc = "done" /\ ~dryRun
    /\ Len(snapMembers) = 2
    /\ Stale(snapMembers[1]) /\ Stale(snapMembers[2])
    /\ members[1].doorflowPersonId = NULL
    /\ members[2].doorflowPersonId \notin {NULL, StaleId}


\* the remote group assignments of a person, as a set
RemoteGroups(ps, id) ==
    UNION {Range(ps[i].groupIds) : i \in {j \in DOMAIN ps : ps[j].id = id}}

\* no remote call of the current run failed
NoRemoteFailure ==
    \A k \in DOMAIN calls : calls[k].op # "updateMember" => calls[k].ok

\* C12 (as stated): after a non-dry run in which no remote call failed, the
\* person of every linked member has exactly the groups resolved from the
\* teams of the member.
C12_GroupsFollowTeams ==
    (pc = "done" /\ ~dryRun /\ NoRemoteFailure) =>
        \A i \in DOMAIN members :
            members[i].doorflowPersonId # NULL =>
                RemoteGroups(people, members[i].doorflowPersonId)
                    = MappedGroups(teams, members[i].teamIds)

\* C12 (amended): after such a run, a member the run created has a person
\* with exactly the resolved groups; a member the run matched by email, whose
\* teams resolve to at least one group and after which no member was matched
\* by email to the same person, has a person with exactly the resolved
\* groups; a person for which the run issued no update has the groups it had
\* when the run started.
C12_GroupsPushedOnLink ==
    (pc = "done" /\ ~dryRun /\ NoRemoteFailure) =>
        /\ \A j \in DOMAIN outcome :
              LET m == snapMembers[j]
                  want == MappedGroups(teams, m.teamIds)
                  id == outcome[j].personId
              IN  /\ outcome[j].bucket = "created" =>
                        RemoteGroups(people, id) = want
                  /\ ( /\ outcome[j].bucket = "matched"
                       /\ Unlinked(m)
                       /\ want # {}
                       /\ \A k \in DOMAIN outcome :
                             (k > j /\ outcome[k].personId = id) => ~Unlinked(snapMembers[k]) )
                     => RemoteGroups(people, id) = want
        /\ \A i \in DOMAIN before.people :
              (\A k \in DOMAIN calls :
                    calls[k].op = "updatePerson" => calls[k].personId # before.people[i].id)
                 => people[i] = before.people[i]

\* a finished run that matched a member by email to a person of group 7 and
\* left the person with the two groups of the member's teams, next to a
\* member that was already linked to a person whose groups are not those of
\* its teams
C12_Witness ==
    /\ pc = "done" /\ ~dryRun /\ NoRemoteFailure
    /\ \E j \in DOMAIN outcome :
          /\ Unlinked(snapMembers[j])
          /\ outcome[j].bucket = "matched"
          /\ RemoteGroups(before.people, outcome[j].personId) = {7}
          /\ RemoteGroups(people, outcome[j].personId) = {5, 6}
    /\ \E j \in DOMAIN outcome :
          /\ ~Unlinked(snapMembers[j])
          /\ RemoteGroups(people, outcome[j].personId)
                # MappedGroups(teams, snapMembers[j].teamIds)

\* C13: the iteration for a member whose link is in the listing makes no
\* remote call and no store write, and appends the member to matched with
\* the person id it already had; the other buckets stay as they are.
C13_LinkedMemberNoWrites ==
    [][ (pc = "loop" /\ idx <= Len(snapMembers) /\ ~Unlinked(snapMembers[idx])) =>
            /\ calls' = calls
            /\ members' = members
            /\ people' = people
            /\ nextPersonId' = nextPersonId
            /\ pc' = "loop"
            /\ results' = [results EXCEPT !.matched =
                              Append(@, [member |-> snapMembers[idx],
                                         personId |-> snapMembers[idx].doorflowPersonId])]
      ]_vars

\* a non-dry creating run that reported an already linked member as matched
\* to person 1 after it had created a person for the member before it
C13_Witness ==
    /\ ~dryRun
    /\ Len(outcome) = 2
    /\ outcome[1].create = "ok"
    /\ ~Unlinked(snapMembers[2])
    /\ outcome[2].bucket = "matched"
    /\ outcome[2].personId = 1
    /\ Len(calls) = 2

\* the fields of a member a sync run may write
SyncFields == {"doorflowPersonId", "updatedAt"}

\* C14 (as stated): a step of a sync run leaves the team store alone, adds
\* and removes no member, and changes no field of a stored member other than
\* doorflowPersonId and updatedAt, also when another request has edited the
\* member since the run loaded its snapshot.
C14_SyncWritesLinkOnly ==
    [][ (api' = api /\ pc # "idle") =>
            /\ teams' = teams
            /\ Len(members') = Len(members)
            /\ \A i \in DOMAIN members :
                  \A f \in (DOMAIN members[i]) \ SyncFields :
                      members'[i][f] = members[i][f]
      ]_vars

\* C15 (as stated): a PUT of a member that is answered 200 issues one
\* updatePerson for the person of the member, with the groups resolved from
\* the teamIds stored by the update, when the body carries teamIds, the member is linked after the update
\* and the remote is connected, and no remote call otherwise; the fields of
\* the body are stored and the answer is 200 also when the push fails; a
\* PUT that is not answered 200 makes no remote call.
C15_PutPushesGroups ==
    api.op = "putMember" =>
        LET i == FindIndex(api.members, api.id)
        IN  IF api.status = 200
            THEN /\ \A f \in api.body.has : members[i][f] = api.body[f]
                 /\ IF /\ "teamIds" \in api.body.has
                       /\ members[i].doorflowPersonId # NULL
                       /\ connected
                    THEN /\ Len(api.calls) = 1
                         /\ api.calls[1].op = "updatePerson"
                         /\ api.calls[1].personId = members[i].doorflowPersonId
                         /\ api.calls[1].hasGroupIds
                         /\ Range(api.calls[1].groupIds)
                               = MappedGroups(api.teams, OrEmpty(members[i].teamIds))
                         /\ api.calls[1].ok =>
                               RemoteGroups(people, api.calls[1].personId)
                                   = MappedGroups(api.teams, OrEmpty(members[i].teamIds))
                         /\ ~api.calls[1].ok => people = api.people
                    ELSE /\ api.calls = << >>
                         /\ people = api.people
            ELSE /\ api.calls = << >>
                 /\ people = api.people
                 /\ members = api.members

\* the linked members of a team
TeamLinked(ms, teamId) ==
    {j \in DOMAIN ms : /\ teamId \in Range(OrEmpty(ms[j].teamIds))
                       /\ ms[j].doorflowPersonId # NULL}

\* C16: after a PUT of a team that changed its doorflowGroupId and was
\* answered 200 while the remote is connected, the updatePerson calls of the
\* request are, in store order, one per linked member of the team, for the
\* person of the member and with the groups of all the teams of the member
\* under the stored mapping; a member outside the team or unlinked gets
\* none; a failing call takes away none of the others and the mapping stays
\* stored.
C16_TeamPutPushesMembers ==
    (/\ api.op = "putTeam" /\ api.status = 200 /\ connected
     /\ "doorflowGroupId" \in api.body.has
     /\ api.body.doorflowGroupId
            # api.teams[FindIndex(api.teams, api.id)].doorflowGroupId) =>
        LET i == FindIndex(api.teams, api.id)
            tm == TeamLinked(members, api.id)
            at(k) == CHOOSE j \in tm : Cardinality({h \in tm : h < j}) = k - 1
        IN  /\ teams[i].doorflowGroupId = api.body.doorflowGroupId
            /\ Len(api.calls) = Cardinality(tm)
            /\ \A k \in DOMAIN api.calls :
                  /\ api.calls[k].op = "updatePerson"
                  /\ api.calls[k].personId = members[at(k)].doorflowPersonId
                  /\ api.calls[k].hasGroupIds
                  /\ Range(api.calls[k].groupIds)
                        = MappedGroups(teams, OrEmpty(members[at(k)].teamIds))

\* team t2 was mapped to group 8 with two linked members in it: the push for
\* the first failed, the push for the second put its person in group 8
C16_Witness ==
    /\ api.op = "putTeam" /\ api.status = 200 /\ connected
    /\ api.id = "t2"
    /\ Len(api.calls) = 2
    /\ ~api.calls[1].ok
    /\ api.calls[2].ok
    /\ RemoteGroups(people, api.calls[2].personId) = {8}
    /\ RemoteGroups(people, api.calls[1].personId) = {7}

\* C17 (as stated): a create or update request of a member leaves the id of
\* every stored member as it was, and no two stored members share an id.
C17_IdsStableAndUnique ==
    [][ api'.op \in {"postMember", "putMember"} =>
            /\ \A i \in DOMAIN members :
                  i \in DOMAIN members' /\ members'[i].id = members[i].id
            /\ \A i, j \in DOMAIN members' :
                  members'[i].id = members'[j].id => i = j
      ]_vars

\* no createPerson of the current run failed
NoCreateFailure ==
    \A k \in DOMAIN calls : calls[k].op = "createPerson" => calls[k].ok

\* C18 (as stated): a non-dry run that got its listing and in which no
\* remote creation failed returns every member in the bucket in which the
\* dry run over the same stores, listing and createMissing returns it;
\* matched entries carry the same person id, and the created entries of the
\* dry run carry the id 0.
C18_DryRunSameBuckets ==
    (~dryRun /\ pc \in {"done", "fatal"} /\ Listed /\ NoCreateFailure) =>
        LET dry == DryRunOf(snapMembers, doorflowPeople, createMissing, teamToGroupMap)
            real == response.result
        IN  \A i \in DOMAIN snapMembers :
                LET id == snapMembers[i].id
                IN  /\ BucketOf(real, id) = BucketOf(dry, id)
                    /\ BucketOf(dry, id) = "matched" =>
                          ReportedId(real, id) = ReportedId(dry, id)
                    /\ BucketOf(dry, id) = "created" => ReportedId(dry, id) = 0

\* C19: a sync request that ends in the catch of POST answers 401 with the
\* not-authenticated message when it caught a remote error of status 401,
\* the status of the remote error when it caught one of another status, and
\* 500 when it caught anything else; the answer carries no bucket.
C19_FatalStatusByType ==
    pc = "fatal" =>
        /\ response.remoteStatus = 401 =>
              /\ response.status = 401
              /\ response.error = "Not authenticated. Please connect to DoorFlow first."
        /\ response.remoteStatus \notin {0, 401} =>
              response.status = response.remoteStatus
        /\ response.remoteStatus = 0 => response.status = 500
        /\ response.cause \in {"body", "write"} => response.remoteStatus = 0
        /\ ~response.hasResult
        /\ response.result = EmptyResults

\* the listing of a second request failed with a remote 404, after a first
\* run that returned buckets
C19_Witness ==
    /\ pc = "fatal"
    /\ response.remoteStatus = 404
    /\ response.status = 404
    /\ prev.valid
    /\ prev.matched # {}

\* C20: after a POST /api/reset that answered 200, the member store holds
\* the four sample members, in their order and each without a link, and the
\* team store holds the three sample teams, each without a group; the
\* request answers 200 unless one of its two saves failed, so also when the
\* disconnect failed.
C20_ResetRestoresSamples ==
    api.op = "reset" =>
        /\ api.status = 200 =>
              /\ Len(members) = 4
              /\ \A i \in DOMAIN members :
                    /\ members[i].id = <<"m1", "m2", "m3", "m4">>[i]
                    /\ members[i].name = MemberNames[i]
                    /\ members[i].teamIds = SampleTeamIds[i]
                    /\ members[i].doorflowPersonId = NULL
              /\ Len(teams) = 3
              /\ \A i \in DOMAIN teams :
                    /\ teams[i].id = <<"t1", "t2", "t3">>[i]
                    /\ teams[i].doorflowGroupId = NULL
        /\ api.status # 200 =>
              \E k \in DOMAIN api.calls :
                  /\ api.calls[k].op \in {"saveAllMembers", "saveAllTeams"}
                  /\ ~api.calls[k].ok

\* a reset answered 200 although its disconnect failed, over stores that
\* held a created member, a linked member and a mapped team
C20_Witness ==
    /\ api.op = "reset"
    /\ api.status = 200
    /\ ~api.calls[1].ok
    /\ connected
    /\ \E i \in DOMAIN api.members : api.members[i].doorflowPersonId # NULL
    /\ \E i \in DOMAIN api.members : api.members[i].id = "u1"
    /\ \E i \in DOMAIN api.teams : api.teams[i].doorflowGroupId # NULL

\* the ids of the people of a listing
PersonIds(list) == {list[i].id : i \in DOMAIN list}

\* the remote persons that carry the id of a member as their systemId
PersonsFor(ps, memberId) ==
    {ps[i].id : i \in {j \in DOMAIN ps : ps[j].systemId = memberId}}

\* C21: two overlapping creating, non-dry runs that both listed the people
\* before either had created one, and whose iterations interleave as wholes,
\* both create a remote person for a member that is unlinked and has no
\* email peer when no call for it fails: both report it created, with two
\* different person ids, the directory holds these two persons under the id
\* of the one member, and the stored link of the member is one of the two.
C21_BothRunsCreate ==
    (/\ pc = "done" /\ rival.pc = "done"
     /\ createMissing /\ ~dryRun
     /\ PersonIds(rival.doorflowPeople) = PersonIds(doorflowPeople)) =>
        \A j \in DOMAIN snapMembers, k \in DOMAIN rival.snapMembers :
            LET m == snapMembers[j]
            IN  (/\ rival.snapMembers[k].id = m.id
                 /\ Unlinked(m) /\ EmailPeers(m) = {}
                 /\ outcome[j].create # "fail" /\ outcome[j].link # "throw"
                 /\ rival.outcome[k].create # "fail"
                 /\ rival.outcome[k].link # "throw") =>
                    /\ outcome[j].bucket = "created"
                    /\ rival.outcome[k].bucket = "created"
                    /\ outcome[j].personId # rival.outcome[k].personId
                    /\ {outcome[j].personId, rival.outcome[k].personId}
                          \subseteq PersonsFor(people, m.id)
                    /\ StoredLink(m.id)
                          \in {outcome[j].personId, rival.outcome[k].personId}

\* both runs have returned: the directory holds persons 10 and 11 for member
\* m1, which the first run linked to 10 and the second run then linked to 11
C21_Witness ==
    /\ pc = "done" /\ rival.pc = "done"
    /\ createMissing /\ ~dryRun
    /\ rival.doorflowPeople = doorflowPeople
    /\ PersonsFor(people, "m1") = {10, 11}
    /\ outcome[1].personId = 10
    /\ rival.outcome[1].personId = 11
    /\ StoredLink("m1") = 11

\* the run matched the member at position j of the snapshot by email
MatchedByEmail(j) == Unlinked(snapMembers[j]) /\ outcome[j].bucket = "matched"

\* the updatePerson calls of the current run
UpdateCalls == SelectSeq(calls, LAMBDA c : c.op = "updatePerson")

\* C22: in a non-dry run, for a member matched by email the update of the
\* matched person is issued exactly when the teams of the member resolve to
\* at least one group or the member has a photo; an update carries groupIds
\* exactly when the resolved list is not empty, and then the resolved list;
\* a person to which only members without a mapped team were matched has
\* the remote groups it had when the run started.
C22_UpdateOnGroupsOrPhoto ==
    ~dryRun =>
        /\ \A j \in DOMAIN outcome :
              MatchedByEmail(j) =>
                  LET m == snapMembers[j]
                      want == MappedGroups(teams, OrEmpty(m.teamIds))
                  IN  outcome[j].update # "none"
                         <=> (want # {} \/ m.name \in PhotoFiles)
        /\ Len(UpdateCalls)
              = Cardinality({j \in DOMAIN outcome : outcome[j].update # "none"})
        /\ \A k \in DOMAIN UpdateCalls :
              LET c == UpdateCalls[k]
              IN  /\ c.hasGroupIds <=> c.groupIds # << >>
                  /\ \E j \in DOMAIN outcome :
                        /\ MatchedByEmail(j)
                        /\ outcome[j].personId = c.personId
                        /\ Range(c.groupIds)
                              = MappedGroups(teams, OrEmpty(snapMembers[j].teamIds))
                        /\ c.image <=> snapMembers[j].name \in PhotoFiles
        /\ \A i \in DOMAIN before.people :
              (\A j \in DOMAIN outcome :
                    (MatchedByEmail(j) /\ outcome[j].personId = before.people[i].id)
                        => MappedGroups(teams, OrEmpty(snapMembers[j].teamIds)) = {})
                 => people[i].groupIds = before.people[i].groupIds

\* two members without a mapped team were matched by email to person 1 of
\* group 7: the one with a photo got an update without groupIds, the other
\* no update, and person 1 is still in group 7 alone
C22_Witness ==
    /\ ~dryRun /\ pc = "done"
    /\ Len(outcome) = 2
    /\ MatchedByEmail(1) /\ MatchedByEmail(2)
    /\ outcome[1].personId = 1 /\ outcome[2].personId = 1
    /\ outcome[1].update = "ok" /\ outcome[2].update = "none"
    /\ Len(UpdateCalls) = 1
    /\ ~UpdateCalls[1].hasGroupIds
    /\ UpdateCalls[1].image
    /\ RemoteGroups(people, 1) = {7}
    /\ RemoteGroups(before.people, 1) = {7}

\* C23 (as stated): the group id list of every createPerson and updatePerson
\* the sync engine issues holds each group id once, also when two teams of
\* the member map to the same group or a team id is repeated in teamIds.
C23_GroupIdsSentOnce ==
    \A k \in DOMAIN calls :
        calls[k].op \in {"createPerson", "updatePerson"} =>
            \A a, b \in DOMAIN calls[k].groupIds :
                calls[k].groupIds[a] = calls[k].groupIds[b] => a = b

\* C24: a member matched by email is matched to the last person of the
\* listing among those that have its email up to letter case, also when
\* several have it; in a non-dry run that person, and no other, is its
\* stored link.
C24_LastDuplicateWins ==
    \A j \in DOMAIN outcome :
        MatchedByEmail(j) =>
            LET m == snapMembers[j]
                last == doorflowPeople[MaxOf(EmailPeers(m))]
            IN  /\ outcome[j].personId = last.id
                /\ ReportedId(results, m.id) = last.id
                /\ ~dryRun => StoredLink(m.id) = last.id
                /\ dryRun => StoredLink(m.id) = m.doorflowPersonId

\* persons 1 and 2 of the listing share an email up to letter case, and an
\* unlinked member with that email was linked to person 2, the later one
C24_Witness ==
    /\ ~dryRun /\ pc = "done"
    /\ \E j \in DOMAIN outcome :
          /\ MatchedByEmail(j)
          /\ snapMembers[j].doorflowPersonId = NULL
          /\ Cardinality(EmailPeers(snapMembers[j])) = 2
          /\ {doorflowPeople[i].id : i \in EmailPeers(snapMembers[j])} = {1, 2}
          /\ StoredLink(snapMembers[j].id) = 2

\* the members of a store, other than the one at position i, whose email is
\* the given one up to letter case
OthersWithEmail(ms, i, email) ==
    {j \in DOMAIN ms : j # i /\ EqualsIgnoreCase(ms[j].email, email)}

\* C25 (as stated): a PUT of a stored member with an email in the body that
\* is answered 200 or 409 is answered 409 exactly when another member has
\* that email up to letter case; a body that repeats the email of the
\* member, or changes only the case of its letters, is not answered 409.
C25_PutEmailConflict ==
    (/\ api.op = "putMember" /\ api.status \in {200, 409}
     /\ "email" \in api.body.has) =>
        LET i == FindIndex(api.members, api.id)
        IN  api.status = 409
               <=> OthersWithEmail(api.members, i, api.body.email) # {}

\* C26 (as stated): from a store without duplicate emails, after member
\* requests served one after the other no two stored members have emails
\* that are equal up to letter case.
C26_EmailsStayDistinct ==
    \A i, j \in DOMAIN members :
        i # j => ~EqualsIgnoreCase(members[i].email, members[j].email)

\* C27: a member or team request answered 400, 404 or 409 has made no
\* remote call and has left the member store, the team store and the remote
\* directory as they were when it arrived.
C27_RejectedLeavesState ==
    api.status \in {400, 404, 409} =>
        /\ api.op \in {"postMember", "putMember", "deleteMember",
                       "postTeam", "putTeam", "deleteTeam"}
        /\ api.calls = << >>
        /\ members = api.members
        /\ teams = api.teams
        /\ people = api.people

\* a PUT of a team with linked members was answered 400 for its blank name
\* while the remote is connected, its body carrying another group mapping,
\* after a first request that was served
C27_Witness ==
    /\ api.op = "putTeam" /\ api.status = 400
    /\ api.seq = 2
    /\ connected
    /\ "doorflowGroupId" \in api.body.has
    /\ api.body.doorflowGroupId
          # api.teams[FindIndex(api.teams, api.id)].doorflowGroupId
    /\ TeamLinked(members, api.id) # {}

\* C28: after a creating, non-dry run in which no call failed every stored
\* member is linked to a person of the directory; the run that follows it
\* with the same flags, listing the directory as the first run left it and
\* with no failing call either, puts every member in matched with its
\* stored link, leaves created, unmatched and errors empty, and makes no
\* store write and no remote create or update.
C28_SecondRunAllMatched ==
    (createMissing /\ ~dryRun /\ faults = 0) =>
        /\ pc = "done" =>
              \A i \in DOMAIN members :
                  /\ members[i].doorflowPersonId # NULL
                  /\ members[i].doorflowPersonId \in PersonIds(people)
        /\ (prev.valid /\ pc \in {"loop", "done"}) =>
              /\ calls = << >>
              /\ StoresUntouched
              /\ results.created = << >>
              /\ results.unmatched = << >>
              /\ results.errors = << >>
              /\ \A k \in DOMAIN results.matched :
                    /\ results.matched[k].member = snapMembers[k]
                    /\ results.matched[k].personId = snapMembers[k].doorflowPersonId
              /\ pc = "done" => Len(results.matched) = Len(snapMembers)

\* the second of two creating runs without a failing call has returned two
\* members as matched, one of them with a person the first run created for
\* it and one with a person the first run matched by email
C28_Witness ==
    /\ createMissing /\ ~dryRun /\ faults = 0
    /\ pc = "done" /\ prev.valid
    /\ Len(results.matched) = 2
    /\ before.nextPersonId > prev.nextPersonId
    /\ \E k \in DOMAIN results.matched : results.matched[k].personId >= FirstNewId
    /\ \E k \in DOMAIN results.matched : results.matched[k].personId < StaleId

\* no two members of a store are linked to the same person
DistinctLinks(ms) ==
    \A i, j \in DOMAIN ms :
        (i # j /\ ms[i].doorflowPersonId # NULL)
            => ms[i].doorflowPersonId # ms[j].doorflowPersonId

\* C29 (as stated): when no two members were linked to the same person
\* before a non-dry run, no two members are linked to the same person after
\* it.
C29_LinksStayDistinct ==
    (pc = "done" /\ ~dryRun /\ DistinctLinks(before.members))
        => DistinctLinks(members)

\* C30 (as stated): a member is in errors only when the run created no
\* remote person for it: no person that carries the id of a member in errors
\* as systemId was created by the run.
C30_ErrorsLeaveNoPerson ==
    \A j \in DOMAIN outcome :
        outcome[j].bucket = "errors" =>
            /\ outcome[j].create # "ok"
            /\ ~\E i \in DOMAIN people :
                  /\ people[i].systemId = snapMembers[j].id
                  /\ people[i].id >= before.nextPersonId

(* claims about the group resolution, under SpecGroups *)

\* C6: getGroupIdsForMember and getDoorflowGroupIdsForTeams both return, as
\* a set, the group ids of the stored teams that are among the team ids and
\* are mapped; unmapped and unknown team ids add nothing; no store changes.
C6_GroupResolution ==
    resolve.answered =>
        /\ Range(resolve.sync) = MappedGroups(teams, resolve.teamIds)
        /\ Range(resolve.storage) = MappedGroups(teams, resolve.teamIds)
        /\ StoresUntouched

\* two teams mapped to two groups and an unknown team id resolve to the
\* two groups
C6_Witness ==
    /\ resolve.answered
    /\ resolve.teamIds = <<"t1", "t2", "t3">>
    /\ teams[1].doorflowGroupId = 5
    /\ teams[2].doorflowGroupId = 6
    /\ Range(resolve.sync) = {5, 6}
    /\ Range(resolve.storage) = {5, 6}

====
